---- MODULE Spec2Model ----
(***************************************************************************)
(* Model of core/gemini_automation_steel.py: GeminiAutomationSteel, the    *)
(* email-OTP login flow driven over a remote browser, with its connection  *)
(* set-up, teardown and credential extraction.                             *)
(*                                                                         *)
(* The browser, the mail poller, the clock and the log callback are the    *)
(* environment: every call into them draws its outcome with \E.  Text      *)
(* (URLs, button labels) is a sequence of tokens; substring tests and      *)
(* splits are computed on those sequences as Python computes them on       *)
(* characters.                                                             *)
(***************************************************************************)
EXTENDS Integers, Sequences, FiniteSets, TLC

VARIABLES
    pc,             \* position in login_and_extract / _connect / _run_flow / helpers
    exc,            \* exception in flight ("none" when there is none)
    result,         \* value returned by _run_flow / the handler (None before)
    producer,       \* which code built `result`
    outcome,        \* how login_and_extract ended
    email,          \* argument of login_and_extract
    hostTz,         \* UTC offset (seconds) of the host's local timezone
    ext,            \* stop() called from outside: what it brought down, and whether it raced the flow
    now,            \* last reading of the clock (epoch seconds)
    playwright,     \* self._playwright is set
    browser,        \* self._browser is set
    calls,          \* calls issued to the browser, the mail poller and stop()
    cancelSeen,     \* the log callback has raised TaskCancelledError
    actedAfterCancel,   \* a UI call was issued after it did
    shortcut,       \* line 173 found both business parameters
    actedAfterShortcut, \* a call of the login flow was issued after that
    send_time,      \* local send_time of _run_flow
    since,          \* since_time passed to the latest poll_for_code
    poll_end,       \* instant at which the first poll returned
    click_at,       \* instant of the click on the resend button
    send_at,        \* instant of the click on the send-code button
    shot,           \* the screenshot attempted: its name, and whether the attempt raised
    scb,            \* the running _click_send_code_button: methods begun, clicks, input seen
    ucheck,         \* step 11 as just taken: page.url read, and what became of the setup
    bcheck,         \* steps 9-10 as just taken: current_url of line 259, and whether line 270 ran
    code,           \* local code of _run_flow
    code_input,     \* selector of the element held in code_input
    url,            \* local url of _extract_config (line 510)
    loopi,          \* iteration counter of the running bounded loop
    seli,           \* index of the selector being probed
    probed,         \* selectors probed in the current pass of a selector list
    buttons,        \* buttons of page.locator("button").all() still to visit
    stage,          \* which call of _wait_for_business_params is running (1 or 2)
    caller,         \* who called the running _simulate_human_input (None once it returned)
    text,           \* argument text of _simulate_human_input
    typed,          \* characters sent by the running _simulate_human_input
    username_input, \* selector of the element held in username_input
    input_visible,  \* is_visible() answered True for that element
    coop,           \* the environment has followed the cooperative script so far
    jar,            \* cookie jar read by _extract_config
    ret,            \* where _extract_config returns to
    first           \* result of the first of two successive extractions

vars == <<pc, exc, result, producer, outcome, email, hostTz, ext, now, playwright,
          browser, calls, cancelSeen, actedAfterCancel, shortcut, actedAfterShortcut,
          send_time, since, poll_end, click_at, send_at, shot, scb, ucheck, bcheck, code, code_input, url, loopi, seli, probed,
          buttons, stage, caller, text, typed, username_input, input_visible, coop,
          jar, ret,
          first>>

None == "None"
\* a poll that returns None or "" (both are falsy, and the flow only tests `not code`)
NoCode == <<>>
\* _click_send_code_button is not running
ScbNone == [tried |-> <<>>, clicks |-> <<>>, visible |-> FALSE]
\* no screenshot was attempted
NoShot == [name |-> "", failed |-> FALSE]
\* stop() has not been called from outside
NoExt == [down |-> FALSE, racing |-> FALSE, felled |-> FALSE]
\* step 11 is not the step just taken
NoCheck == [url |-> <<>>, login |-> FALSE, started |-> FALSE]
\* steps 9-10 are not the steps just taken
NoBiz == [url |-> <<>>, went |-> FALSE]

(***************************************************************************)
(* Bounds of the model.                                                    *)
(***************************************************************************)
MaxButtons == 2     \* most buttons page.locator("button").all() returns
MaxElapse  == 45    \* most seconds between two readings of the clock

(***************************************************************************)
(* Text as token sequences.                                                *)
(***************************************************************************)
IsAt(s, m, i) ==
    /\ i + Len(m) - 1 <= Len(s)
    /\ \A k \in 1..Len(m) : s[i + k - 1] = m[k]

\* Python: m in s
Contains(s, m) == \E i \in 1..(Len(s) + 1) : IsAt(s, m, i)

\* Python: s.find(m) + 1, 0 when absent
Find(s, m) ==
    IF Contains(s, m)
    THEN CHOOSE i \in 1..(Len(s) + 1) :
            /\ IsAt(s, m, i)
            /\ \A j \in 1..(i - 1) : ~IsAt(s, m, j)
    ELSE 0

\* Python: s.split(m), m non-empty
RECURSIVE Split(_, _)
Split(s, m) ==
    LET i == Find(s, m)
    IN  IF i = 0
        THEN <<s>>
        ELSE <<SubSeq(s, 1, i - 1)>> \o Split(SubSeq(s, i + Len(m), Len(s)), m)

(***************************************************************************)
(* Markers tested on page.url.                                             *)
(***************************************************************************)
BUSINESS_DOMAIN == <<"business.gemini.google">>
CSESIDX_EQ      == <<"csesidx=">>
SLASH_CID_SLASH == <<"/", "cid", "/">>
CID_SLASH       == <<"cid", "/">>
CID             == <<"cid">>
VERIFY_OOB      == <<"verify-oob-code">>
ADMIN_CREATE    == <<"/", "admin", "/", "create">>
AUTH_LOGIN      == <<"auth.", "business.gemini.google", "/", "login">>

(***************************************************************************)
(* URLs the page may report.                                               *)
(***************************************************************************)
UrlAuthLogin   == <<"https://", "auth.", "business.gemini.google", "/", "login", "/", "email",
                    "?", "continueUrl=", "business.gemini.google", "&", "loginHint=">>
UrlVerify      == <<"https://", "auth.", "business.gemini.google", "/", "verify-oob-code">>
UrlAccounts    == <<"https://", "accounts.google.com", "/", "signin",
                    "?", "continue=", "business.gemini.google">>
UrlOffDomain   == <<"https://", "accounts.google.com", "/", "signin">>
UrlAdminCreate == <<"https://", "business.gemini.google", "/", "admin", "/", "create">>
UrlBizHome     == <<"https://", "business.gemini.google", "/">>
UrlBizPlacid   == <<"https://", "business.gemini.google", "/", "home", "?", "pla", "cid", "=1">>
UrlBizCidOnly  == <<"https://", "business.gemini.google", "/", "cid", "/", "abc123">>
UrlBizEmptyCid == <<"https://", "business.gemini.google", "/", "cid", "/", "?", "csesidx=", "xyz">>
UrlBizFull     == <<"https://", "business.gemini.google", "/", "cid", "/", "abc123",
                    "?", "csesidx=", "xyz">>
UrlBizDeep     == <<"https://", "business.gemini.google", "/", "cid", "/", "def456", "/", "r",
                    "?", "csesidx=", "7", "&", "hl=en">>

PageUrls == {UrlAuthLogin, UrlVerify, UrlAccounts, UrlOffDomain, UrlAdminCreate, UrlBizHome,
             UrlBizPlacid, UrlBizCidOnly, UrlBizEmptyCid, UrlBizFull, UrlBizDeep}

(***************************************************************************)
(* Time: epoch seconds, aware datetimes, strftime.                         *)
(***************************************************************************)
HourSeconds == 3600
DaySeconds  == 86400

\* civil date of a day number (days since 1970-01-01), proleptic Gregorian
CivilFromDays(days) ==
    LET z   == days + 719468
        era == z \div 146097
        doe == z - era * 146097
        yoe == (doe - doe \div 1460 + doe \div 36524 - doe \div 146096) \div 365
        doy == doe - (365 * yoe + yoe \div 4 - yoe \div 100)
        mp  == (5 * doy + 2) \div 153
        d   == doy - (153 * mp + 2) \div 5 + 1
        m   == IF mp < 10 THEN mp + 3 ELSE mp - 9
        y   == yoe + era * 400 + (IF m <= 2 THEN 1 ELSE 0)
    IN  <<y, m, d>>

\* datetime.fromtimestamp(ts, tz=timezone(offset)) / datetime.now(tz): an aware
\* datetime is the instant with the offset its wall clock is shown in
Aware(ts, offset) == [instant |-> ts, utcoffset |-> offset]

\* aware datetime +/- timedelta(seconds)
PlusSeconds(dt, secs) == [dt EXCEPT !.instant = @ + secs]

\* dt.strftime("%Y-%m-%d %H:%M:%S"): the wall-clock fields <<Y, m, d, H, M, S>>
Strftime(dt) ==
    LET wall == dt.instant + dt.utcoffset
        sod  == wall % DaySeconds
    IN  CivilFromDays(wall \div DaySeconds)
            \o <<sod \div HourSeconds, (sod % HourSeconds) \div 60, sod % 60>>

(***************************************************************************)
(* Exceptions.  "fault" is any Exception the code does not single out,     *)
(* "timeout" is PlaywrightTimeoutError, "cancel" is TaskCancelledError.    *)
(* All three are subclasses of Exception: login_and_extract and _log name  *)
(* TaskCancelledError in a handler placed before `except Exception`.       *)
(***************************************************************************)
Exceptions == {"fault", "timeout", "cancel"}

\* `except Exception` catches e
IsException(e) == e \in Exceptions

\* `except TaskCancelledError` catches e
IsTaskCancelled(e) == e = "cancel"

\* `except PlaywrightTimeoutError` catches e
IsPlaywrightTimeout(e) == e = "timeout"

\* try: ... except Exception: pass -- what still escapes when the body raised e
Swallow(e) == IF IsException(e) THEN "none" ELSE e

\* outcomes of a browser call that returns nothing of interest; once a stop()
\* from outside has closed the browser or stopped the driver, every call to
\* them raises
CallOutcomes == IF ext.down THEN {"fault"} ELSE {"ok", "fault"}
\* outcomes of a navigation
NavOutcomes == IF ext.down THEN {"fault"} ELSE {"ok", "fault", "timeout"}
\* outcomes of locator.is_visible()
Probes == IF ext.down THEN {"fault"} ELSE {"visible", "hidden", "fault"}
\* outcomes of mail_client.poll_for_code, which does not go through the browser
PollOutcomes == {"ok", "fault"}
\* what the log callback does with one call
LogOutcomes == {"ok", "fault", "cancel"}

\* variant: _log letting every exception of the callback through
_logLeaksFault(o) == IF o = "ok" THEN "none" ELSE o
\* the exception that escapes self._log when the callback did o
_log(o) == IF IsTaskCancelled(o) THEN o ELSE Swallow(IF o = "ok" THEN "none" ELSE o)

(***************************************************************************)
(* The bag of calls issued to the collaborators.                           *)
(***************************************************************************)
UiKinds == {"goto", "reload", "click_send", "click_resend", "click_agree", "click_submit",
            "click", "type", "fill", "press", "poll", "name_click", "name_fill",
            "name_press", "ex_goto"}
CallKinds == UiKinds \cup {"add_cookies", "screenshot", "cookies", "stop", "close",
                            "driver_stop", "wait_code_input", "resend", "username_setup",
                            "wait_params"}

\* the calls the bag counts; the others are only followed by the two flags
Counted == CallKinds \ {"add_cookies", "click_send", "click_agree", "click", "type",
                         "wait_code_input", "name_click", "name_fill", "name_press"}

NoCalls == [k \in Counted |-> 0]
Did(c, k) == IF k \in Counted THEN [c EXCEPT ![k] = @ + 1] ELSE c

\* calls that are steps of the login flow proper (everything but what
\* _extract_config and stop issue)
FlowKinds == CallKinds \ {"ex_goto", "cookies", "stop", "close", "driver_stop"}

RECURSIVE DidAll(_, _)
DidAll(c, ks) == IF ks = <<>> THEN c ELSE DidAll(Did(c, Head(ks)), Tail(ks))

\* the calls ks are issued, in this order
Issue(ks) ==
    /\ calls' = DidAll(calls, ks)
    /\ actedAfterCancel' =
            (actedAfterCancel \/ (cancelSeen /\ \E i \in 1..Len(ks) : ks[i] \in UiKinds))
    /\ actedAfterShortcut' =
            (actedAfterShortcut \/ (shortcut /\ \E i \in 1..Len(ks) : ks[i] \in FlowKinds))
NoIssue == UNCHANGED <<calls, actedAfterCancel, actedAfterShortcut>>

\* bookkeeping of one log call
Logged(o) == cancelSeen' = (cancelSeen \/ o = "cancel")
NotLogged == UNCHANGED cancelSeen

\* readings the clock may give after it gave t
ClockReadings(t) == {t, t + MaxElapse}

\* variable groups
args   == <<email, hostTz, ext>>
conn   == <<playwright, browser>>
res    == <<result, producer, outcome>>
hist   == <<calls, actedAfterCancel, actedAfterShortcut>>
cut    == <<shortcut>>
locals == <<send_time, code, code_input, username_input, input_visible>>
loops  == <<loopi, seli, probed, buttons, stage>>
shi    == <<caller, text, typed>>
stamps == <<since, poll_end, click_at, send_at>>
extr   == <<url, jar, ret, first>>

\* the locals of _run_flow and its helpers are never read again (the frame is
\* left, or what remains of the function does not use them): they are dropped
\* from the state
LocalsDead ==
    /\ send_time' = 0
    /\ scb' = ScbNone
    /\ ucheck' = NoCheck
    /\ bcheck' = NoBiz
    /\ since' = 0
    /\ poll_end' = 0
    /\ click_at' = 0
    /\ send_at' = 0
    /\ code' = NoCode
    /\ code_input' = None
    /\ username_input' = None
    /\ input_visible' = FALSE
    /\ loopi' = 0
    /\ seli' = 0
    /\ probed' = <<>>
    /\ buttons' = 0
    /\ stage' = 0
    /\ caller' = None
    /\ text' = <<>>
    /\ typed' = <<>>

\* send_time and the instants kept with it are not read after the last poll
FloorDead ==
    /\ send_time' = 0
    /\ since' = 0
    /\ poll_end' = 0
    /\ click_at' = 0
    /\ send_at' = 0

\* the environment stays on the cooperative script only if ok holds
Script(ok) == coop' = (coop /\ ok)

\* raise e out of _connect / _run_flow into login_and_extract's handlers
Throw(e) == pc' = "lae_except" /\ exc' = e

(***************************************************************************)
(* Emails, clock and host timezones the runs start from.                   *)
(***************************************************************************)
Emails    == {<<"user", "@", "example.com">>, <<"a+b", "@", "x.org">>}
\* 2024-12-31 23:59:30 in UTC+8
BaseNow   == 20088 * DaySeconds + 15 * HourSeconds + 59 * 60 + 30
HostTzs   == {0, -5 * HourSeconds}
\* the host of the runs of the login flow is at UTC-5
FlowHostTz == -5 * HourSeconds
\* the latest instant at which the model lets the first poll return (the
\* clock is capped there: the send-code clicks and the poll share one step)
FirstPollBy == BaseNow + MaxElapse
\* readings of the clock up to the return of the first poll
EarlyReadings(t) == {r \in ClockReadings(t) : r <= FirstPollBy}
BeijingTz == 8 * HourSeconds

Init ==
    /\ pc = "connect_log"
    /\ exc = "none"
    /\ result = None
    /\ producer = "none"
    /\ outcome = "running"
    /\ email \in Emails
    /\ hostTz = FlowHostTz
    /\ ext = NoExt
    /\ now = BaseNow
    /\ playwright = FALSE
    /\ browser = FALSE
    /\ calls = NoCalls
    /\ cancelSeen = FALSE
    /\ actedAfterCancel = FALSE
    /\ shortcut = FALSE
    /\ actedAfterShortcut = FALSE
    /\ send_time = 0
    /\ since = 0
    /\ poll_end = 0
    /\ click_at = 0
    /\ send_at = 0
    /\ shot = NoShot
    /\ scb = ScbNone
    /\ ucheck = NoCheck
    /\ bcheck = NoBiz
    /\ code = NoCode
    /\ code_input = None
    /\ url = <<>>
    /\ loopi = 0
    /\ seli = 0
    /\ probed = <<>>
    /\ buttons = 0
    /\ stage = 0
    /\ caller = None
    /\ text = <<>>
    /\ typed = <<>>
    /\ username_input = None
    /\ input_visible = FALSE
    /\ coop = TRUE
    /\ jar = <<>>
    /\ ret = "lae_finally"
    /\ first = None

(***************************************************************************)
(* _connect                                                                *)
(***************************************************************************)
\* line 70: the first log call, inside the try
Connect_LogStart ==
    /\ pc = "connect_log"
    /\ \E o \in LogOutcomes :
        /\ Logged(o)
        /\ Script(o # "cancel")
        /\ IF _log(o) = "none"
           THEN pc' = "connect_start" /\ exc' = "none"
           ELSE pc' = "connect_except" /\ exc' = _log(o)
    /\ UNCHANGED <<args, bcheck, ucheck, scb, shot, stamps, now, conn, hist, res, cut, locals, loops, shi, extr>>

\* line 72: sync_playwright().start()
Connect_StartPlaywright ==
    /\ pc = "connect_start"
    /\ \E r \in CallOutcomes :
        /\ Script(r = "ok")
        /\ IF r = "ok"
           THEN pc' = "connect_cdp" /\ exc' = "none" /\ playwright' = TRUE
           ELSE pc' = "connect_except" /\ exc' = r /\ playwright' = playwright
    /\ NotLogged
    /\ UNCHANGED <<args, bcheck, ucheck, scb, shot, stamps, now, browser, hist, res, cut, locals, loops, shi, extr>>

\* line 73: connect_over_cdp
Connect_OverCdp ==
    /\ pc = "connect_cdp"
    /\ \E r \in NavOutcomes :
        /\ Script(r = "ok")
        /\ IF r = "ok"
           THEN pc' = "connect_page" /\ exc' = "none" /\ browser' = TRUE
           ELSE pc' = "connect_except" /\ exc' = r /\ browser' = browser
    /\ NotLogged
    /\ UNCHANGED <<args, bcheck, ucheck, scb, shot, stamps, now, playwright, hist, res, cut, locals, loops, shi, extr>>

\* lines 76-117: context, page, default timeout, init script (its failure is
\* passed over), then the second log call
Connect_Page ==
    /\ pc = "connect_page"
    /\ \E r \in CallOutcomes, script \in CallOutcomes, o \in LogOutcomes :
        LET e == IF r # "ok" THEN r ELSE IF Swallow(IF script = "ok" THEN "none" ELSE script) # "none"
                                        THEN script ELSE _log(o)
        IN  /\ IF r = "ok" THEN Logged(o) ELSE NotLogged
            /\ Script(r = "ok" /\ script = "ok" /\ o # "cancel")
            /\ IF e = "none"
               THEN pc' = "rf_entry" /\ exc' = "none"
               ELSE pc' = "connect_except" /\ exc' = e
    /\ UNCHANGED <<args, bcheck, ucheck, scb, shot, stamps, now, conn, hist, res, cut, locals, loops, shi, extr>>

\* lines 119-124: log the failure and re-raise (a cancellation raised by this
\* log call replaces the exception being handled)
Connect_Except ==
    /\ pc = "connect_except"
    /\ \E o \in LogOutcomes :
        /\ Logged(o)
        /\ Script(FALSE)
        /\ Throw(IF _log(o) = "none" THEN exc ELSE _log(o))
    /\ UNCHANGED <<args, bcheck, ucheck, scb, shot, stamps, now, conn, hist, res, cut, locals, loops, shi, extr>>

(***************************************************************************)
(* login_and_extract: handlers and finally                                 *)
(***************************************************************************)
Failure(msg) == [success |-> FALSE, error |-> msg]

\* lines 59-63
Lae_Except ==
    /\ pc = "lae_except"
    /\ IF IsTaskCancelled(exc)
       THEN /\ pc' = "lae_finally"
            /\ NotLogged
            /\ UNCHANGED <<exc, result, producer>>
       ELSE \E o \in LogOutcomes :
            /\ IsException(exc)
            /\ Logged(o)
            /\ pc' = "lae_finally"
            /\ IF _log(o) = "none"
               THEN /\ exc' = "none"
                    /\ result' = Failure(exc)
                    /\ producer' = "handler"
               ELSE /\ exc' = _log(o)
                    /\ UNCHANGED <<result, producer>>
    /\ Script(FALSE)
    /\ LocalsDead
    /\ UNCHANGED <<args, shot, now, conn, hist, outcome, cut, extr>>

\* how a call ends that leaves with exception e in flight
Ending(e) == IF e = "none" THEN "returned" ELSE IF IsTaskCancelled(e) THEN "cancelled" ELSE "raised"

\* variant: stop giving up after a failed browser close
stopSkipsDriverOnCloseError ==
    /\ pc = "lae_finally"
    /\ \E c \in CallOutcomes, d \in CallOutcomes :
        LET afterClose == IF browser THEN Did(Did(calls, "stop"), "close") ELSE Did(calls, "stop")
            closed     == ~browser \/ c = "ok"
        IN  /\ calls' = IF playwright /\ closed THEN Did(afterClose, "driver_stop") ELSE afterClose
            /\ outcome' = Ending(exc)
            /\ UNCHANGED <<coop, actedAfterCancel, actedAfterShortcut>>
    /\ pc' = "done"
    /\ NotLogged
    /\ LocalsDead
    /\ UNCHANGED <<args, shot, now, conn, exc, result, producer, cut, extr>>

\* lines 41-52 run from the finally clause (lines 64-65)
stop ==
    /\ pc = "lae_finally"
    /\ \E c \in CallOutcomes, d \in CallOutcomes :
        LET afterClose == IF browser THEN Did(Did(calls, "stop"), "close") ELSE Did(calls, "stop")
            e1         == IF browser /\ c # "ok" THEN Swallow(c) ELSE "none"
            e2         == IF e1 # "none" THEN e1
                          ELSE IF playwright /\ d # "ok" THEN Swallow(d) ELSE "none"
        IN  /\ calls' = IF playwright /\ e1 = "none" THEN Did(afterClose, "driver_stop") ELSE afterClose
            /\ exc' = IF e2 = "none" THEN exc ELSE e2
            /\ result' = IF e2 = "none" THEN result ELSE None
            /\ outcome' = Ending(exc')
            /\ UNCHANGED <<coop, actedAfterCancel, actedAfterShortcut>>
    /\ pc' = "done"
    /\ NotLogged
    /\ LocalsDead
    /\ UNCHANGED <<args, shot, now, conn, producer, cut, extr>>

(***************************************************************************)
(* _run_flow, steps 1 and 2                                                *)
(***************************************************************************)
\* lines 173 and 260
has_business_params(u) ==
    Contains(u, BUSINESS_DOMAIN) /\ Contains(u, CSESIDX_EQ) /\ Contains(u, SLASH_CID_SLASH)

\* a URL that carries both business parameters
CarriesBoth(u) == Contains(u, CSESIDX_EQ) /\ Contains(u, SLASH_CID_SLASH)

\* lines 130-133: record send_time (the clock's reading at flow entry is the
\* origin BaseNow of the model's time), first log call
Rf_Entry ==
    /\ pc = "rf_entry"
    /\ \E o \in LogOutcomes :
        /\ send_time' = now
        /\ Logged(o)
        /\ Script(o # "cancel")
        /\ IF _log(o) = "none" THEN pc' = "rf_home" /\ exc' = "none" ELSE Throw(_log(o))
    /\ UNCHANGED <<args, bcheck, ucheck, scb, shot, stamps, now, conn, hist, res, cut, code, code_input, username_input, input_visible, loops, shi, extr>>

\* lines 135-136: open the auth landing page
Rf_GotoHome ==
    /\ pc = "rf_home"
    /\ Issue(<<"goto">>)
    /\ \E r \in NavOutcomes :
        /\ Script(r = "ok")
        /\ IF r = "ok" THEN pc' = "rf_cookies" /\ exc' = "none" ELSE Throw(r)
    /\ NotLogged
    /\ UNCHANGED <<args, bcheck, ucheck, scb, shot, stamps, now, conn, res, cut, locals, loops, shi, extr>>

\* line 140: the log call that opens the try
Rf_CookiesLog ==
    /\ pc = "rf_cookies"
    /\ \E o \in LogOutcomes :
        /\ Logged(o)
        /\ Script(o # "cancel")
        /\ IF _log(o) = "none"
           THEN pc' = "rf_add_cookies" /\ exc' = "none"
           ELSE pc' = "rf_cookies_except" /\ exc' = _log(o)
    /\ UNCHANGED <<args, bcheck, ucheck, scb, shot, stamps, now, conn, hist, res, cut, locals, loops, shi, extr>>

\* lines 141-157: add_cookies, then the log call that closes the try
Rf_AddCookies ==
    /\ pc = "rf_add_cookies"
    /\ Issue(<<"add_cookies">>)
    /\ \E r \in CallOutcomes, o \in LogOutcomes :
        LET e == IF r # "ok" THEN r ELSE _log(o)
        IN  /\ IF r = "ok" THEN Logged(o) ELSE NotLogged
            /\ Script(r = "ok" /\ o # "cancel")
            /\ IF e = "none"
               THEN pc' = "rf_login" /\ exc' = "none"
               ELSE pc' = "rf_cookies_except" /\ exc' = e
    /\ UNCHANGED <<args, bcheck, ucheck, scb, shot, stamps, now, conn, res, cut, locals, loops, shi, extr>>

\* lines 158-159: except Exception, log a warning and go on
Rf_CookiesExcept ==
    /\ pc = "rf_cookies_except"
    /\ IsException(exc)
    /\ \E o \in LogOutcomes :
        /\ Logged(o)
        /\ Script(FALSE)
        /\ IF _log(o) = "none" THEN pc' = "rf_login" /\ exc' = "none" ELSE Throw(_log(o))
    /\ UNCHANGED <<args, bcheck, ucheck, scb, shot, stamps, now, conn, hist, res, cut, locals, loops, shi, extr>>

\* lines 161-165: log, then navigate to the login URL
Rf_GotoLogin ==
    /\ pc = "rf_login"
    /\ \E o \in LogOutcomes, r \in NavOutcomes :
        /\ Logged(o)
        /\ IF _log(o) # "none"
           THEN /\ Throw(_log(o))
                /\ NoIssue
                /\ Script(FALSE)
           ELSE /\ Issue(<<"goto">>)
                /\ Script(r = "ok")
                /\ IF r = "ok" THEN pc' = "rf_inspect" /\ exc' = "none"
                   ELSE IF IsPlaywrightTimeout(r) THEN pc' = "rf_login_timeout" /\ exc' = r
                   ELSE Throw(r)
    /\ UNCHANGED <<args, bcheck, ucheck, scb, shot, stamps, now, conn, res, cut, locals, loops, shi, extr>>

\* lines 166-167: a navigation timeout is logged and tolerated
Rf_LoginTimeout ==
    /\ pc = "rf_login_timeout"
    /\ \E o \in LogOutcomes :
        /\ Logged(o)
        /\ Script(FALSE)
        /\ IF _log(o) = "none" THEN pc' = "rf_inspect" /\ exc' = "none" ELSE Throw(_log(o))
    /\ UNCHANGED <<args, bcheck, ucheck, scb, shot, stamps, now, conn, hist, res, cut, locals, loops, shi, extr>>

\* variant: the inspection going on to step 3 whatever the URL holds
Rf_InspectNoShortcut ==
    /\ pc = "rf_inspect"
    /\ \E u \in PageUrls, o1 \in LogOutcomes, o2 \in LogOutcomes :
        LET e == IF _log(o1) # "none" THEN _log(o1) ELSE _log(o2)
        IN  /\ cancelSeen' = (cancelSeen \/ e = "cancel")
            /\ Script(e = "none")
            /\ shortcut' = (_log(o1) = "none" /\ has_business_params(u))
            /\ IF e # "none" THEN Throw(e) ELSE pc' = "scb_id" /\ exc' = "none"
            /\ ret' = ret
            /\ UNCHANGED <<locals, loops, shi, stamps, scb, ucheck, bcheck>>
    /\ UNCHANGED <<args, bcheck, shot, stamps, now, conn, hist, res, url, jar, first>>

\* lines 171-180: inspect the URL; shortcut to extraction or go on to step 3
Rf_Inspect ==
    /\ pc = "rf_inspect"
    /\ \E u \in PageUrls, o1 \in LogOutcomes, o2 \in LogOutcomes :
        LET e == IF _log(o1) # "none" THEN _log(o1) ELSE _log(o2)
        IN  /\ cancelSeen' = (cancelSeen \/ e = "cancel")
            /\ Script(e = "none")
            /\ shortcut' = (_log(o1) = "none" /\ has_business_params(u))
            /\ IF e # "none" THEN Throw(e) /\ ret' = ret
               ELSE IF has_business_params(u)
               THEN pc' = "ex_check" /\ exc' = "none" /\ ret' = "lae_finally"
               ELSE pc' = "scb_id" /\ exc' = "none" /\ ret' = ret
            /\ IF e = "none" /\ has_business_params(u)
               THEN LocalsDead ELSE UNCHANGED <<locals, loops, shi, stamps, scb, ucheck, bcheck>>
    /\ UNCHANGED <<args, shot, now, conn, hist, res, url, jar, first>>

(***************************************************************************)
(* _extract_config                                                         *)
(***************************************************************************)
SES_NAME  == "__Secure-C_SES"
OSES_NAME == "__Host-C_OSES"

\* cookie expiries: 2025-01-02 00:00:00 and 2024-03-01 00:00:00 in UTC+8, and
\* one second before the epoch
Expiry2025 == 20090 * DaySeconds - BeijingTz
Expiry2024 == 19783 * DaySeconds - BeijingTz
ExpiryNeg  == 0 - 1

SesA     == [name |-> SES_NAME, value |-> "tokenA", expires |-> Expiry2025]
SesB     == [name |-> SES_NAME, value |-> "tokenB", expires |-> Expiry2024]
SesNeg   == [name |-> SES_NAME, value |-> "tokenN", expires |-> ExpiryNeg]
SesNoExp == [name |-> SES_NAME, value |-> "tokenA"]
HostC    == [name |-> OSES_NAME, value |-> "tokenH", expires |-> Expiry2024]
OtherC   == [name |-> "NID", value |-> "n", expires |-> Expiry2025]

\* cookie jars page.context.cookies() may return
Jars == {<<>>, <<SesA>>, <<SesNoExp>>, <<HostC, SesB, SesA>>, <<OtherC, SesNeg>>,
         <<SesNoExp, SesA, HostC>>}
\* the jars of the runs of the login flow
FlowJars == {<<>>, <<HostC, SesB, SesA>>}

\* next((c for c in cookies if c["name"] == name), None); the optional result
\* is the empty set (None) or the set of the one cookie found
FirstNamed(cookies, name) ==
    IF \E i \in 1..Len(cookies) : cookies[i].name = name
    THEN {cookies[CHOOSE i \in 1..Len(cookies) :
                    /\ cookies[i].name = name
                    /\ \A k \in 1..(i - 1) : cookies[k].name # name]}
    ELSE {}

\* next((c["value"] for c in cookies if c["name"] == name), None)
FirstValue(cookies, name) ==
    IF FirstNamed(cookies, name) = {} THEN None
    ELSE (CHOOSE c \in FirstNamed(cookies, name) : TRUE).value

\* line 524: ses_obj and "expires" in ses_obj
HasExpiry(ses_obj) == \E c \in ses_obj : "expires" \in DOMAIN c

\* ses_obj["expires"]
ExpiresOf(ses_obj) == (CHOOSE c \in ses_obj : TRUE).expires

\* variant: expires_at on the wall clock of the host
ExpiresAtHostTz(ses_obj, t) ==
    IF HasExpiry(ses_obj)
    THEN Strftime(PlusSeconds(Aware(ExpiresOf(ses_obj), hostTz), -(12 * HourSeconds)))
    ELSE Strftime(PlusSeconds(Aware(t, hostTz), 12 * HourSeconds))
\* lines 523-529, t the reading of the clock
ExpiresAt(ses_obj, t) ==
    IF HasExpiry(ses_obj)
    THEN Strftime(PlusSeconds(Aware(ExpiresOf(ses_obj), BeijingTz), -(12 * HourSeconds)))
    ELSE Strftime(PlusSeconds(Aware(t, BeijingTz), 12 * HourSeconds))

\* line 514: url.split("cid/")[1].split("?")[0].split("/")[0]
ConfigId(u) == Split(Split(Split(u, CID_SLASH)[2], <<"?">>)[1], <<"/">>)[1]

\* line 515
Csesidx(u) ==
    IF Contains(u, CSESIDX_EQ) THEN Split(Split(u, CSESIDX_EQ)[2], <<"&">>)[1] ELSE <<>>

\* variant: the credential with a fixed id
ConfigOfFixedId(u, cookies, t, em) ==
    [success |-> TRUE,
     config  |-> [id           |-> <<"anonymous">>,
                  csesidx      |-> Csesidx(u),
                  config_id    |-> ConfigId(u),
                  secure_c_ses |-> FirstValue(cookies, SES_NAME),
                  host_c_oses  |-> FirstValue(cookies, OSES_NAME),
                  expires_at   |-> ExpiresAt(FirstNamed(cookies, SES_NAME), t)]]

\* variant: the credential losing csesidx on the second of two calls
ConfigOfSecondCall(u, cookies, t, em) ==
    [success |-> TRUE,
     config  |-> [id           |-> em,
                  csesidx      |-> IF ret = "ex_done" THEN <<>> ELSE Csesidx(u),
                  config_id    |-> ConfigId(u),
                  secure_c_ses |-> FirstValue(cookies, SES_NAME),
                  host_c_oses  |-> FirstValue(cookies, OSES_NAME),
                  expires_at   |-> ExpiresAt(FirstNamed(cookies, SES_NAME), t)]]
\* lines 514-539, for a URL that holds "cid/"
ConfigOf(u, cookies, t, em) ==
    [success |-> TRUE,
     config  |-> [id           |-> em,
                  csesidx      |-> Csesidx(u),
                  config_id    |-> ConfigId(u),
                  secure_c_ses |-> FirstValue(cookies, SES_NAME),
                  host_c_oses  |-> FirstValue(cookies, OSES_NAME),
                  expires_at   |-> ExpiresAt(FirstNamed(cookies, SES_NAME), t)]]

\* script of the cooperative UI for a URL read once the flow is past the code
CredentialUrl(u) == has_business_params(u)

\* lines 506-508: the defensive navigation; page.url reads one of urls
Ex_CheckFrom(urls) ==
    /\ pc = "ex_check"
    /\ \E u \in urls, r \in NavOutcomes :
        /\ IF Contains(u, CID_SLASH)
           THEN /\ pc' = "ex_parse"
                /\ Script(CredentialUrl(u))
                /\ UNCHANGED <<hist, result, producer>>
           ELSE /\ Issue(<<"ex_goto">>)
                /\ Script(FALSE)
                /\ IF r = "ok"
                   THEN pc' = "ex_parse" /\ UNCHANGED <<result, producer>>
                   ELSE pc' = ret /\ result' = Failure(r) /\ producer' = "extractor"
    /\ NotLogged
    /\ bcheck' = NoBiz
    /\ UNCHANGED <<args, ucheck, scb, shot, stamps, now, conn, exc, outcome, cut, locals, loops, shi, extr>>

\* variant: the cookies read before the URL is tested
Ex_ParseFromCookiesFirst(urls, jars) ==
    /\ pc = "ex_parse"
    /\ \E u \in urls, j \in jars, r \in CallOutcomes, t \in ClockReadings(now) :
        /\ producer' = "extractor"
        /\ pc' = ret
        /\ IF ~Contains(u, CID_SLASH)
           THEN /\ result' = Failure("cid not found")
                /\ Script(FALSE)
                /\ Issue(<<"cookies">>)
                /\ UNCHANGED <<url, jar, now>>
           ELSE /\ Issue(<<"cookies">>)
                /\ url' = u
                /\ Script(CredentialUrl(u) /\ r = "ok")
                /\ IF r # "ok"
                   THEN result' = Failure(r) /\ UNCHANGED <<jar, now>>
                   ELSE /\ jar' = j
                        /\ now' = IF HasExpiry(FirstNamed(j, SES_NAME)) THEN now ELSE t
                        /\ result' = ConfigOf(u, j, now', email)
    /\ NotLogged
    /\ UNCHANGED <<args, bcheck, ucheck, scb, shot, stamps, conn, exc, outcome, cut, locals, loops, shi, ret, first>>

\* lines 510-541: parse the URL, read the cookies, build the credential;
\* page.url reads one of urls and cookies() returns one of jars. The URL is
\* kept in the state when it is parsed.
Ex_ParseFrom(urls, jars) ==
    /\ pc = "ex_parse"
    /\ \E u \in urls, j \in jars, r \in CallOutcomes, t \in ClockReadings(now) :
        /\ producer' = "extractor"
        /\ pc' = ret
        /\ IF ~Contains(u, CID_SLASH)
           THEN /\ result' = Failure("cid not found")
                /\ Script(FALSE)
                /\ UNCHANGED <<hist, url, jar, now>>
           ELSE /\ Issue(<<"cookies">>)
                /\ url' = u
                /\ Script(CredentialUrl(u) /\ r = "ok")
                /\ IF r # "ok"
                   THEN result' = Failure(r) /\ UNCHANGED <<jar, now>>
                   ELSE /\ jar' = j
                        /\ now' = IF HasExpiry(FirstNamed(j, SES_NAME)) THEN now ELSE t
                        /\ result' = ConfigOf(u, j, now', email)
    /\ NotLogged
    /\ UNCHANGED <<args, bcheck, ucheck, scb, shot, stamps, conn, exc, outcome, cut, locals, loops, shi, ret, first>>

\* the extractor at the end of the login flow
Ex_Check == Ex_CheckFrom(PageUrls)
Ex_Parse == Ex_ParseFrom(PageUrls, FlowJars)

(***************************************************************************)
(* Button labels                                                           *)
(***************************************************************************)
\* str.lower() on one token
LowerTok(t) ==
    CASE t = "Send" -> "send"
      [] t = "SEND" -> "send"
      [] t = "Re" -> "re"
      [] t = "Email" -> "email"
      [] t = "Verification" -> "verification"
      [] t = "NEXT" -> "next"
      [] t = "Cancel" -> "cancel"
      [] OTHER -> t

\* str.lower()
Lower(s) == [i \in 1..Len(s) |-> LowerTok(s[i])]

\* str.strip()
RECURSIVE Strip(_)
Strip(s) ==
    IF s = <<>> THEN s
    ELSE IF Head(s) = " " THEN Strip(Tail(s))
    ELSE IF s[Len(s)] = " " THEN Strip(SubSeq(s, 1, Len(s) - 1))
    ELSE s

\* what btn.text_content() or "" may give (a token zh_... is the Chinese word)
ButtonTexts == {<<>>, <<" ">>, <<" ", "SEND", " ", "code", " ">>, <<"Re", "send", " ", "code">>,
                <<"zh_chongxin", "zh_fasong">>, <<"Cancel">>, <<" ", "NEXT">>}

\* line 313
SEND_KEYWORDS == {<<"zh_tongguo_dianzi_youjian", "zh_fasong", "zh_yanzhengma">>, <<"zh_tongguo_dianzi_youjian", "zh_fasong">>, <<"email">>,
                  <<"Email">>, <<"Send", " ", "code">>, <<"Send", " ", "verification">>,
                  <<"Verification", " ", "code">>, <<"Send">>, <<"zh_fasong">>}

\* lines 319-320, raw the text content
MatchesSend(raw) ==
    LET t == Strip(raw)
    IN  t # <<>> /\ \E kw \in SEND_KEYWORDS : Contains(Lower(t), Lower(kw))

\* lines 406-407
MatchesResend(raw) ==
    LET t == Lower(Strip(raw))
    IN  t # <<>> /\ (Contains(t, <<"zh_chongxin">>) \/ Contains(t, <<"re", "send">>))

\* line 487
SUBMIT_KEYWORDS == {<<"zh_queren">>, <<"zh_tijiao">>, <<"zh_jixu">>, <<"submit">>, <<"continue">>,
                    <<"confirm">>, <<"save">>, <<"zh_baocun">>, <<"zh_xiayibu">>, <<"next">>}

\* lines 486-487
MatchesSubmit(raw) ==
    LET t == Lower(Strip(raw))
    IN  \E kw \in SUBMIT_KEYWORDS : Contains(t, kw)

(***************************************************************************)
(* _click_send_code_button                                                 *)
(***************************************************************************)
\* lines 302-308: method 1, the fixed element id
Scb_ById ==
    /\ pc = "scb_id"
    /\ \E v \in Probes, c \in CallOutcomes, o \in LogOutcomes, at \in EarlyReadings(now) :
        IF v = "visible"
        THEN /\ Issue(<<"click_send">>)
             /\ scb' = [scb EXCEPT !.tried = <<"id">>, !.clicks = <<<<"id", c>>>>]
             /\ IF c = "ok" THEN send_at' = at /\ now' = at
                ELSE UNCHANGED <<send_at, now>>
             /\ IF c = "ok" THEN Logged(o) ELSE NotLogged
             /\ Script(c = "ok" /\ o # "cancel")
             /\ IF c # "ok" THEN pc' = "scb_id_except" /\ exc' = c
                ELSE IF _log(o) # "none" THEN pc' = "scb_id_except" /\ exc' = _log(o)
                ELSE pc' = "rf_wait_input" /\ exc' = "none"
        ELSE /\ NoIssue
             /\ scb' = [scb EXCEPT !.tried = <<"id">>]
             /\ UNCHANGED <<send_at, now>>
             /\ NotLogged
             /\ Script(v = "hidden")
             /\ IF v = "hidden" THEN pc' = "scb_kw" /\ exc' = "none"
                ELSE pc' = "scb_id_except" /\ exc' = v
    /\ UNCHANGED <<args, bcheck, ucheck, shot, since, poll_end, click_at, conn, res, cut, locals, loops,
                   shi, extr>>

\* lines 309-310
Scb_ByIdExcept ==
    /\ pc = "scb_id_except"
    /\ IsException(exc)
    /\ \E o \in LogOutcomes :
        /\ Logged(o)
        /\ Script(FALSE)
        /\ IF _log(o) = "none" THEN pc' = "scb_kw" /\ exc' = "none" ELSE Throw(_log(o))
    /\ UNCHANGED <<args, bcheck, ucheck, scb, shot, stamps, now, conn, hist, res, cut, locals, loops, shi, extr>>

\* lines 314-316: method 2, log and list the buttons
Scb_KwSearch ==
    /\ pc = "scb_kw"
    /\ \E o \in LogOutcomes, r \in CallOutcomes, n \in 0..MaxButtons :
        LET e == IF _log(o) # "none" THEN _log(o) ELSE IF r # "ok" THEN r ELSE "none"
        IN  /\ Logged(o)
            /\ scb' = [scb EXCEPT !.tried = Append(@, "kw")]
            /\ Script(e = "none")
            /\ IF e = "none"
               THEN pc' = "scb_btn" /\ exc' = "none" /\ buttons' = n
               ELSE pc' = "scb_kw_except" /\ exc' = e /\ buttons' = buttons
    /\ UNCHANGED <<args, bcheck, ucheck, shot, stamps, now, conn, hist, res, cut, locals, loopi, seli, probed, stage,
                   shi, extr>>

\* lines 317-321: read the next button's text and test it
Scb_KwButton ==
    /\ pc = "scb_btn"
    /\ IF buttons = 0
       THEN /\ pc' = "scb_input1"
            /\ NotLogged
            /\ UNCHANGED <<exc, buttons, coop>>
       ELSE \E r \in CallOutcomes, t \in ButtonTexts, o \in LogOutcomes :
            IF r # "ok"
            THEN /\ pc' = "scb_btn_except" /\ exc' = r
                 /\ NotLogged
                 /\ Script(FALSE)
                 /\ UNCHANGED buttons
            ELSE IF MatchesSend(t)
            THEN /\ Logged(o)
                 /\ Script(o # "cancel")
                 /\ UNCHANGED buttons
                 /\ IF _log(o) = "none" THEN pc' = "scb_btn_click" /\ exc' = "none"
                    ELSE pc' = "scb_btn_except" /\ exc' = _log(o)
            ELSE /\ pc' = "scb_btn" /\ exc' = "none"
                 /\ buttons' = buttons - 1
                 /\ NotLogged
                 /\ UNCHANGED <<coop, actedAfterCancel, actedAfterShortcut>>
    /\ UNCHANGED <<args, bcheck, ucheck, scb, shot, stamps, now, conn, hist, res, cut, locals, loopi, seli, probed, stage,
                   shi, extr>>

\* lines 322-325: click the matching button
Scb_KwClick ==
    /\ pc = "scb_btn_click"
    /\ Issue(<<"click_send">>)
    /\ \E c \in CallOutcomes, o \in LogOutcomes, at \in EarlyReadings(now) :
        LET e == IF c # "ok" THEN c ELSE _log(o)
        IN  /\ IF c = "ok" THEN Logged(o) ELSE NotLogged
            /\ scb' = [scb EXCEPT !.clicks = Append(@, <<"kw", c>>)]
            /\ IF c = "ok" THEN send_at' = at /\ now' = at
               ELSE UNCHANGED <<send_at, now>>
            /\ Script(c = "ok" /\ o # "cancel")
            /\ IF e = "none" THEN pc' = "rf_wait_input" /\ exc' = "none" /\ buttons' = 0
               ELSE pc' = "scb_btn_except" /\ exc' = e /\ buttons' = buttons
    /\ UNCHANGED <<args, bcheck, ucheck, shot, since, poll_end, click_at, conn, res, cut, locals, loopi,
                   seli, probed, stage, shi, extr>>

\* lines 326-327: the handler inside the loop; what its log call raises is
\* raised inside the outer try
Scb_KwInnerExcept ==
    /\ pc = "scb_btn_except"
    /\ IsException(exc)
    /\ \E o \in LogOutcomes :
        /\ Logged(o)
        /\ Script(FALSE)
        /\ IF _log(o) = "none"
           THEN pc' = "scb_btn" /\ exc' = "none" /\ buttons' = buttons - 1
           ELSE pc' = "scb_kw_except" /\ exc' = _log(o) /\ buttons' = buttons
    /\ UNCHANGED <<args, bcheck, ucheck, scb, shot, stamps, now, conn, hist, res, cut, locals, loopi, seli, probed, stage,
                   shi, extr>>

\* lines 328-329
Scb_KwOuterExcept ==
    /\ pc = "scb_kw_except"
    /\ IsException(exc)
    /\ \E o \in LogOutcomes :
        /\ Logged(o)
        /\ Script(FALSE)
        /\ IF _log(o) = "none" THEN pc' = "scb_input1" /\ exc' = "none" ELSE Throw(_log(o))
    /\ buttons' = 0
    /\ UNCHANGED <<args, bcheck, ucheck, scb, shot, stamps, now, conn, hist, res, cut, locals, loopi, seli, probed, stage, shi,
                   extr>>

\* lines 332-338: is the code input already there (jsname)
Scb_Input1 ==
    /\ pc = "scb_input1"
    /\ \E v \in Probes, o \in LogOutcomes :
        LET e == IF v = "fault" THEN v ELSE IF v = "visible" THEN _log(o) ELSE "none"
        IN  /\ IF v = "visible" THEN Logged(o) ELSE NotLogged
            /\ scb' = [scb EXCEPT !.tried = Append(@, "input"), !.visible = (v = "visible")]
            /\ Script(v # "fault" /\ (v = "visible" => o # "cancel"))
            /\ exc' = Swallow(e)
            /\ pc' = IF exc' # "none" THEN "lae_except"
                      ELSE IF v = "visible" /\ e = "none" THEN "rf_wait_input"
                      ELSE "scb_input2"
    /\ UNCHANGED <<args, bcheck, ucheck, shot, stamps, now, conn, hist, res, cut, locals, loops, shi, extr>>

\* lines 340-349: is the code input already there (pinInput); else report failure
Scb_Input2 ==
    /\ pc = "scb_input2"
    /\ \E v \in Probes, o \in LogOutcomes, o2 \in LogOutcomes :
        LET e     == IF v = "fault" THEN v ELSE IF v = "visible" THEN _log(o) ELSE "none"
            found == v = "visible" /\ e = "none"
            e2    == IF Swallow(e) # "none" THEN Swallow(e)
                     ELSE IF found THEN "none" ELSE _log(o2)
        IN  /\ cancelSeen' = (cancelSeen \/ (v = "visible" /\ o = "cancel")
                                          \/ (~found /\ Swallow(e) = "none" /\ o2 = "cancel"))
            /\ scb' = [scb EXCEPT !.visible = (@ \/ v = "visible")]
            /\ Script(found)
            /\ IF e2 # "none" THEN Throw(e2)
               ELSE IF found THEN pc' = "rf_wait_input" /\ exc' = "none"
               ELSE pc' = "rf_send_missing" /\ exc' = "none"
    /\ UNCHANGED <<args, bcheck, ucheck, shot, stamps, now, conn, hist, res, cut, locals, loops, shi, extr>>

(***************************************************************************)
(* _run_flow, steps 3 to 5                                                 *)
(***************************************************************************)
\* _run_flow returns r
Return(r) == pc' = "lae_finally" /\ exc' = "none" /\ result' = r /\ producer' = "flow"

\* variant: a screenshot whose exception leaves _save_screenshot
_save_screenshotLeaks(c) == IF c = "ok" THEN "none" ELSE c
\* lines 543-551: the exception that escapes _save_screenshot when makedirs or
\* page.screenshot did c
_save_screenshot(c) == Swallow(IF c = "ok" THEN "none" ELSE c)

\* self._save_screenshot(page, name), then return {"success": False, "error": msg}
Fail(name, msg) ==
    \E c \in CallOutcomes :
        /\ Issue(<<"screenshot">>)
        /\ shot' = [name |-> name, failed |-> c # "ok"]
        /\ IF _save_screenshot(c) = "none"
           THEN Return(Failure(msg))
           ELSE Throw(_save_screenshot(c)) /\ UNCHANGED <<result, producer>>

\* lines 182-184
Rf_SendMissing ==
    /\ pc = "rf_send_missing"
    /\ \E o \in LogOutcomes :
        /\ Logged(o)
        /\ Script(FALSE)
        /\ IF _log(o) # "none"
           THEN Throw(_log(o)) /\ NoIssue /\ UNCHANGED <<result, producer, shot>>
           ELSE Fail("send_code_button_missing", "send code button not found")
    /\ scb' = ScbNone
    /\ UNCHANGED <<args, bcheck, ucheck, stamps, now, conn, outcome, cut, locals, loops, shi, extr>>

\* line 351
CODE_INPUT_TIMEOUT == 30
\* lines 353-358
CODE_INPUT_SELECTORS == <<"input[jsname='ovqh0b']", "input[type='tel']",
                          "input[name='pinInput']", "input[autocomplete='one-time-code']">>
\* line 359: range(timeout // 2)
CodeInputPasses == CODE_INPUT_TIMEOUT \div 2

\* lines 187-188: log and call _wait_for_code_input
Rf_WaitInput ==
    /\ pc = "rf_wait_input"
    /\ \E o \in LogOutcomes :
        /\ Logged(o)
        /\ Script(o # "cancel")
        /\ IF _log(o) # "none"
           THEN Throw(_log(o)) /\ NoIssue /\ UNCHANGED <<loopi, seli>>
           ELSE /\ Issue(<<"wait_code_input">>)
                /\ pc' = "wci" /\ exc' = "none"
                /\ loopi' = 0 /\ seli' = 1
    /\ scb' = ScbNone
    /\ UNCHANGED <<args, bcheck, ucheck, shot, stamps, now, conn, res, cut, locals, probed, buttons, stage, shi, extr>>

\* variant: a probe whose exception leaves the helper
Wci_ProbeRaises ==
    /\ pc = "wci"
    /\ loopi < CodeInputPasses
    /\ \E v \in Probes :
        /\ probed' = IF seli = 1 THEN <<CODE_INPUT_SELECTORS[1]>>
                      ELSE Append(probed, CODE_INPUT_SELECTORS[seli])
        /\ IF v = "fault"
           THEN Throw(v) /\ UNCHANGED <<code_input, loopi, seli, coop>>
           ELSE /\ exc' = "none"
                /\ IF v = "visible"
                   THEN /\ code_input' = CODE_INPUT_SELECTORS[seli]
                        /\ pc' = "rf_poll1"
                        /\ loopi' = 0 /\ seli' = 0
                        /\ UNCHANGED coop
                   ELSE IF seli < Len(CODE_INPUT_SELECTORS)
                   THEN /\ seli' = seli + 1 /\ pc' = "wci"
                        /\ UNCHANGED <<code_input, loopi, coop>>
                   ELSE /\ IF loopi + 1 = CodeInputPasses
                           THEN pc' = "rf_input_missing" /\ loopi' = 0 /\ seli' = 0 /\ Script(FALSE)
                           ELSE pc' = "wci" /\ loopi' = loopi + 1 /\ seli' = 1 /\ UNCHANGED coop
                        /\ UNCHANGED code_input
    /\ NotLogged
    /\ UNCHANGED <<args, bcheck, ucheck, scb, shot, stamps, now, conn, hist, res, cut, send_time, code, username_input, input_visible,
                   buttons, stage, shi, extr>>

\* lines 359-368: one probe of one selector
Wci_Probe ==
    /\ pc = "wci"
    /\ loopi < CodeInputPasses
    /\ \E v \in Probes :
        /\ probed' = IF seli = 1 THEN <<CODE_INPUT_SELECTORS[1]>>
                      ELSE Append(probed, CODE_INPUT_SELECTORS[seli])
        /\ exc' = Swallow(IF v = "fault" THEN v ELSE "none")
        /\ IF v = "visible"
           THEN /\ code_input' = CODE_INPUT_SELECTORS[seli]
                /\ pc' = "rf_poll1"
                /\ loopi' = 0 /\ seli' = 0
                /\ UNCHANGED coop
           ELSE IF seli < Len(CODE_INPUT_SELECTORS)
           THEN /\ seli' = seli + 1 /\ pc' = "wci"
                /\ UNCHANGED <<code_input, loopi, coop>>
           ELSE /\ IF loopi + 1 = CodeInputPasses
                   THEN pc' = "rf_input_missing" /\ loopi' = 0 /\ seli' = 0 /\ Script(FALSE)
                   ELSE pc' = "wci" /\ loopi' = loopi + 1 /\ seli' = 1 /\ UNCHANGED coop
                /\ UNCHANGED code_input
    /\ NotLogged
    /\ UNCHANGED <<args, bcheck, ucheck, scb, shot, stamps, now, conn, hist, res, cut, send_time, code, username_input, input_visible,
                   buttons, stage, shi, extr>>

\* lines 190-192
Rf_InputMissing ==
    /\ pc = "rf_input_missing"
    /\ \E o \in LogOutcomes :
        /\ Logged(o)
        /\ Script(FALSE)
        /\ IF _log(o) # "none"
           THEN Throw(_log(o)) /\ NoIssue /\ UNCHANGED <<result, producer, shot>>
           ELSE Fail("code_input_missing", "code input not found")
    /\ UNCHANGED <<args, bcheck, ucheck, scb, stamps, now, conn, outcome, cut, locals, loops, shi, extr>>

\* codes the mail poller may return
Codes == {<<"4", "2">>, <<"7", "7">>}
PollReturns == Codes \cup {NoCode}

\* variant: the floor taken from the clock when the poll returns
Rf_Poll1FloorAtReturn ==
    /\ pc = "rf_poll1"
    /\ \E o \in LogOutcomes, r \in PollOutcomes, c \in PollReturns,
          p \in EarlyReadings(now) :
        /\ Logged(o)
        /\ IF _log(o) # "none"
           THEN /\ Throw(_log(o)) /\ NoIssue /\ Script(FALSE)
                /\ UNCHANGED <<code, since, poll_end, now>>
           ELSE /\ Issue(<<"poll">>)
                /\ since' = p
                /\ Script(r = "ok" /\ c # NoCode)
                /\ IF r # "ok" THEN Throw(r) /\ UNCHANGED <<code, poll_end, now>>
                   ELSE /\ code' = c
                        /\ poll_end' = p
                        /\ now' = p
                        /\ exc' = "none"
                        /\ pc' = IF c # NoCode THEN "rf_received" ELSE "rf_resend"
    /\ UNCHANGED <<args, bcheck, ucheck, scb, shot, click_at, send_at, conn, res, cut, send_time, code_input, username_input,
                   input_visible, loops, shi, extr>>

\* lines 195-196: log, then the first poll, called with since_time=send_time;
\* it returns at an instant p, no later than FirstPollBy
Rf_Poll1 ==
    /\ pc = "rf_poll1"
    /\ \E o \in LogOutcomes, r \in PollOutcomes, c \in PollReturns,
          p \in EarlyReadings(now) :
        /\ Logged(o)
        /\ IF _log(o) # "none"
           THEN /\ Throw(_log(o)) /\ NoIssue /\ Script(FALSE)
                /\ UNCHANGED <<code, since, poll_end, now>>
           ELSE /\ Issue(<<"poll">>)
                /\ since' = send_time
                /\ Script(r = "ok" /\ c # NoCode)
                /\ IF r # "ok" THEN Throw(r) /\ UNCHANGED <<code, poll_end, now>>
                   ELSE /\ code' = c
                        /\ poll_end' = p
                        /\ now' = p
                        /\ exc' = "none"
                        /\ pc' = IF c # NoCode THEN "rf_received" ELSE "rf_resend"
    /\ UNCHANGED <<args, bcheck, ucheck, scb, shot, click_at, send_at, conn, res, cut, send_time, code_input, username_input,
                   input_visible, loops, shi, extr>>

\* variant: the resend path keeping the send_time of flow entry
Rf_ResendKeepsFloor ==
    /\ pc = "rf_resend"
    /\ \E o \in LogOutcomes, t \in ClockReadings(now) :
        /\ Logged(o)
        /\ Script(FALSE)
        /\ IF _log(o) # "none"
           THEN Throw(_log(o)) /\ NoIssue /\ UNCHANGED now
           ELSE /\ now' = t
                /\ Issue(<<"resend">>)
                /\ pc' = "rcb_all" /\ exc' = "none"
    /\ UNCHANGED <<args, bcheck, ucheck, scb, shot, stamps, conn, res, cut, send_time, code, code_input, username_input,
                   input_visible, loops, shi, extr>>

\* lines 198-203: no code; log, record a new send_time, call the resend helper
Rf_Resend ==
    /\ pc = "rf_resend"
    /\ \E o \in LogOutcomes, t \in ClockReadings(now) :
        /\ Logged(o)
        /\ Script(FALSE)
        /\ IF _log(o) # "none"
           THEN Throw(_log(o)) /\ NoIssue /\ UNCHANGED <<now, send_time>>
           ELSE /\ now' = t
                /\ send_time' = t
                /\ Issue(<<"resend">>)
                /\ pc' = "rcb_all" /\ exc' = "none"
    /\ send_at' = 0
    /\ UNCHANGED <<args, bcheck, ucheck, scb, shot, since, poll_end, click_at, conn, res, cut, code, code_input, username_input,
                   input_visible, loops, shi, extr>>

(***************************************************************************)
(* _click_resend_code_button                                               *)
(***************************************************************************)
\* line 403: list the buttons (a failure is passed over: return False)
Rcb_All ==
    /\ pc = "rcb_all"
    /\ \E r \in CallOutcomes, n \in 0..MaxButtons :
        /\ exc' = Swallow(IF r = "ok" THEN "none" ELSE r)
        /\ IF r = "ok"
           THEN pc' = "rcb_btn" /\ buttons' = n
           ELSE pc' = "rf_code_timeout" /\ buttons' = buttons
    /\ NotLogged
    /\ UNCHANGED <<args, bcheck, ucheck, scb, shot, stamps, now, conn, hist, res, cut, locals, loopi, seli, probed, stage,
                   shi, coop, extr>>

\* lines 404-417: one button of the loop
Rcb_Button ==
    /\ pc = "rcb_btn"
    /\ IF buttons = 0
       THEN /\ pc' = "rf_code_timeout"
            /\ NotLogged /\ NoIssue
            /\ UNCHANGED <<exc, buttons, click_at, now>>
       ELSE \E r \in CallOutcomes, t \in ButtonTexts, o \in LogOutcomes, c \in CallOutcomes,
               at \in ClockReadings(now) :
            LET reached == r = "ok" /\ MatchesResend(t)
                clicks  == reached /\ _log(o) = "none"
                e       == IF r # "ok" THEN r
                           ELSE IF ~reached THEN "none"
                           ELSE IF _log(o) # "none" THEN _log(o)
                           ELSE IF c # "ok" THEN c ELSE "none"
            IN  /\ IF reached THEN Logged(o) ELSE NotLogged
                /\ IF clicks
                   THEN Issue(<<"click_resend">>) /\ click_at' = at /\ now' = at
                   ELSE NoIssue /\ UNCHANGED <<click_at, now>>
                /\ exc' = Swallow(e)
                /\ IF clicks /\ e = "none"
                   THEN pc' = "rf_poll2" /\ buttons' = 0
                   ELSE pc' = "rcb_btn" /\ buttons' = buttons - 1
    /\ UNCHANGED <<args, bcheck, ucheck, scb, shot, since, poll_end, send_at, conn, res, cut, locals, loopi, seli, probed, stage, shi,
                   coop, extr>>

(***************************************************************************)
(* _run_flow, the resend branch                                            *)
(***************************************************************************)
\* variant: a second poll that goes back to the resend path when it finds no code
Rf_Poll2Retries ==
    /\ pc = "rf_poll2"
    /\ \E o \in LogOutcomes, r \in PollOutcomes, c \in PollReturns :
        /\ Logged(o)
        /\ IF _log(o) # "none"
           THEN Throw(_log(o)) /\ NoIssue /\ UNCHANGED <<code, since>>
           ELSE /\ Issue(<<"poll">>)
                /\ since' = send_time
                /\ IF r # "ok" THEN Throw(r) /\ UNCHANGED code
                   ELSE /\ code' = c
                        /\ exc' = "none"
                        /\ pc' = IF c # NoCode THEN "rf_received" ELSE "rf_resend"
    /\ UNCHANGED <<args, bcheck, ucheck, scb, shot, poll_end, click_at, send_at, now, conn, res, cut, send_time, code_input,
                   username_input, input_visible, loops, shi, coop, extr>>

\* lines 204-206: log, then the second poll, called with since_time=send_time
Rf_Poll2 ==
    /\ pc = "rf_poll2"
    /\ \E o \in LogOutcomes, r \in PollOutcomes, c \in PollReturns :
        /\ Logged(o)
        /\ IF _log(o) # "none"
           THEN Throw(_log(o)) /\ NoIssue /\ UNCHANGED <<code, since>>
           ELSE /\ Issue(<<"poll">>)
                /\ since' = send_time
                /\ IF r # "ok" THEN Throw(r) /\ UNCHANGED code
                   ELSE /\ code' = c
                        /\ exc' = "none"
                        /\ pc' = IF c # NoCode THEN "rf_received" ELSE "rf_timeout_after_resend"
    /\ UNCHANGED <<args, bcheck, ucheck, scb, shot, poll_end, click_at, send_at, now, conn, res, cut, send_time, code_input,
                   username_input, input_visible, loops, shi, coop, extr>>

\* lines 207-210
Rf_TimeoutAfterResend ==
    /\ pc = "rf_timeout_after_resend"
    /\ \E o \in LogOutcomes :
        /\ Logged(o)
        /\ IF _log(o) # "none"
           THEN Throw(_log(o)) /\ NoIssue /\ UNCHANGED <<result, producer, shot>>
           ELSE Fail("code_timeout_after_resend", "verification code timeout after resend")
    /\ UNCHANGED <<args, bcheck, ucheck, scb, stamps, now, conn, outcome, cut, locals, loops, shi, coop, extr>>

\* lines 211-214
Rf_CodeTimeout ==
    /\ pc = "rf_code_timeout"
    /\ \E o \in LogOutcomes :
        /\ Logged(o)
        /\ IF _log(o) # "none"
           THEN Throw(_log(o)) /\ NoIssue /\ UNCHANGED <<result, producer, shot>>
           ELSE Fail("code_timeout", "verification code timeout")
    /\ UNCHANGED <<args, bcheck, ucheck, scb, stamps, now, conn, outcome, cut, locals, loops, shi, coop, extr>>

(***************************************************************************)
(* _run_flow, step 6: enter the code                                       *)
(***************************************************************************)
\* lines 216-232: log, re-resolve the code input (jsname, else tel; a Locator
\* is always truthy, so line 226 never returns), log, call the simulator
Rf_Received ==
    /\ pc = "rf_received"
    /\ \E o1 \in LogOutcomes, v \in Probes, o2 \in LogOutcomes :
        LET e == IF _log(o1) # "none" THEN _log(o1) ELSE _log(o2)
        IN  /\ cancelSeen' = (cancelSeen \/ e = "cancel")
            /\ Script(e = "none" /\ v # "fault")
            /\ IF _log(o1) # "none"
               THEN UNCHANGED <<code_input, probed>>
               ELSE /\ probed' = <<CODE_INPUT_SELECTORS[1]>>
                    /\ code_input' = IF v = "visible" THEN CODE_INPUT_SELECTORS[1]
                                      ELSE CODE_INPUT_SELECTORS[2]
            /\ IF e # "none"
               THEN Throw(e) /\ UNCHANGED <<caller, text, typed>>
               ELSE /\ pc' = "shi_click" /\ exc' = "none"
                    /\ caller' = "code" /\ text' = code /\ typed' = <<>>
    /\ FloorDead
    /\ UNCHANGED <<args, bcheck, ucheck, scb, shot, now, conn, hist, res, cut, code, username_input, input_visible,
                   loopi, seli, buttons, stage, extr>>

(***************************************************************************)
(* _simulate_human_input                                                   *)
(***************************************************************************)
\* where the helper's callers go on: line 232/233 of _run_flow, line 477/478 of
\* _handle_username_setup
ShiReturns(ok) ==
    IF caller = "code" THEN (IF ok THEN "rf_press" ELSE "rf_fallback")
    ELSE (IF ok THEN "hus_buttons" ELSE "hus_fallback")

\* lines 381-383: click for focus
Shi_Click ==
    /\ pc = "shi_click"
    /\ Issue(<<"click">>)
    /\ \E c \in CallOutcomes :
        /\ Script(c = "ok")
        /\ IF c = "ok"
           THEN pc' = (IF text = <<>> THEN "shi_done" ELSE "shi_type") /\ exc' = "none"
           ELSE pc' = "shi_except" /\ exc' = c
    /\ NotLogged
    /\ UNCHANGED <<args, bcheck, ucheck, scb, shot, stamps, now, conn, res, cut, locals, loops, shi, extr>>

\* lines 386-387: one character
Shi_Type ==
    /\ pc = "shi_type"
    /\ Len(typed) < Len(text)
    /\ Issue(<<"type">>)
    /\ \E c \in CallOutcomes :
        /\ Script(c = "ok")
        /\ IF c = "ok"
           THEN /\ typed' = Append(typed, text[Len(typed) + 1])
                /\ pc' = (IF Len(typed') = Len(text) THEN "shi_done" ELSE "shi_type")
                /\ exc' = "none"
           ELSE /\ pc' = "shi_except" /\ exc' = c
                /\ typed' = typed
    /\ NotLogged
    /\ UNCHANGED <<args, bcheck, ucheck, scb, shot, stamps, now, conn, res, cut, locals, loops, caller, text, extr>>

\* lines 390-392
Shi_Done ==
    /\ pc = "shi_done"
    /\ \E o \in LogOutcomes :
        /\ Logged(o)
        /\ Script(o # "cancel")
        /\ IF _log(o) = "none"
           THEN pc' = ShiReturns(TRUE) /\ exc' = "none" /\ caller' = None
           ELSE pc' = "shi_except" /\ exc' = _log(o) /\ caller' = caller
    /\ UNCHANGED <<args, bcheck, ucheck, scb, shot, stamps, now, conn, hist, res, cut, locals, loops, text,
                   typed, extr>>

\* variant: the handler reporting success
Shi_ExceptReportsSuccess ==
    /\ pc = "shi_except"
    /\ IsException(exc)
    /\ \E o \in LogOutcomes :
        /\ Logged(o)
        /\ Script(FALSE)
        /\ IF _log(o) = "none"
           THEN pc' = ShiReturns(TRUE) /\ exc' = "none" /\ caller' = None
           ELSE /\ caller' = caller
                /\ IF caller = "code" THEN Throw(_log(o))
                   ELSE pc' = "hus_return" /\ exc' = Swallow(_log(o))
    /\ UNCHANGED <<args, bcheck, ucheck, scb, shot, stamps, now, conn, hist, res, cut, locals, loops, text,
                   typed, extr>>

\* lines 393-395: report failure; what this log call raises leaves the helper,
\* into login_and_extract (caller _run_flow) or into the except clause of line
\* 500 (caller _handle_username_setup), which makes it return False
Shi_Except ==
    /\ pc = "shi_except"
    /\ IsException(exc)
    /\ \E o \in LogOutcomes :
        /\ Logged(o)
        /\ Script(FALSE)
        /\ IF _log(o) = "none"
           THEN pc' = ShiReturns(FALSE) /\ exc' = "none" /\ caller' = None
           ELSE /\ caller' = caller
                /\ IF caller = "code" THEN Throw(_log(o))
                   ELSE pc' = "hus_return" /\ exc' = Swallow(_log(o))
    /\ UNCHANGED <<args, bcheck, ucheck, scb, shot, stamps, now, conn, hist, res, cut, locals, loops, text,
                   typed, extr>>

(***************************************************************************)
(* _run_flow, steps 6 to 10                                                *)
(***************************************************************************)
\* lines 233-235: the bulk fill
Rf_Fallback ==
    /\ pc = "rf_fallback"
    /\ \E o \in LogOutcomes, c \in CallOutcomes :
        /\ Logged(o)
        /\ IF _log(o) # "none"
           THEN Throw(_log(o)) /\ NoIssue /\ UNCHANGED typed
           ELSE /\ Issue(<<"fill">>)
                /\ IF c = "ok" THEN pc' = "rf_press" /\ exc' = "none" /\ typed' = code
                   ELSE Throw(c) /\ UNCHANGED typed
    /\ UNCHANGED <<args, bcheck, ucheck, scb, shot, stamps, now, conn, res, cut, locals, loops, caller, text, coop, extr>>

\* lines 238-243: log, press Enter, log
Rf_Press ==
    /\ pc = "rf_press"
    /\ \E o1 \in LogOutcomes, c \in CallOutcomes, o2 \in LogOutcomes :
        LET e == IF _log(o1) # "none" THEN _log(o1) ELSE IF c # "ok" THEN c ELSE _log(o2)
        IN  /\ cancelSeen' = (cancelSeen \/ e = "cancel")
            /\ Script(e = "none")
            /\ IF _log(o1) # "none" THEN NoIssue ELSE Issue(<<"press">>)
            /\ IF e # "none" THEN Throw(e) ELSE pc' = "rf_after_verify" /\ exc' = "none"
    /\ UNCHANGED <<args, bcheck, ucheck, scb, shot, stamps, now, conn, res, cut, locals, loops, shi, extr>>

\* lines 246-253: has the page left the verification URL
Rf_AfterVerify ==
    /\ pc = "rf_after_verify"
    /\ \E u \in PageUrls, o1 \in LogOutcomes, o2 \in LogOutcomes :
        LET stuck == Contains(u, VERIFY_OOB)
            e     == IF _log(o1) # "none" THEN _log(o1) ELSE IF stuck THEN _log(o2) ELSE "none"
        IN  /\ cancelSeen' = (cancelSeen \/ e = "cancel")
            /\ Script(e = "none" /\ ~stuck)
            /\ IF e # "none" THEN Throw(e) /\ NoIssue /\ UNCHANGED <<result, producer, shot>>
               ELSE IF stuck
               THEN Fail("verification_submit_failed", "verification code submission failed")
               ELSE pc' = "agr" /\ exc' = "none" /\ NoIssue /\ UNCHANGED <<result, producer, shot>>
            /\ IF e = "none" /\ ~stuck THEN LocalsDead ELSE UNCHANGED <<locals, loops, shi, stamps, scb, ucheck, bcheck>>
    /\ UNCHANGED <<args, now, conn, outcome, cut, extr>>

\* lines 419-428: _handle_agreement_page
_handle_agreement_page ==
    /\ pc = "agr"
    /\ \E u \in PageUrls, v \in Probes, c \in CallOutcomes :
        /\ Script(CredentialUrl(u))
        /\ IF Contains(u, ADMIN_CREATE) /\ v = "visible"
           THEN Issue(<<"click_agree">>)
           ELSE NoIssue
        /\ exc' = Swallow(IF ~Contains(u, ADMIN_CREATE) THEN "none"
                           ELSE IF v = "fault" THEN v
                           ELSE IF v = "visible" /\ c # "ok" THEN c ELSE "none")
    /\ pc' = "rf_biz_check"
    /\ NotLogged
    /\ UNCHANGED <<args, bcheck, ucheck, scb, shot, stamps, now, conn, res, cut, locals, loops, shi, extr>>

\* lines 259-273: extract at once, or navigate to the business console if the
\* page is elsewhere
Rf_BizCheck ==
    /\ pc = "rf_biz_check"
    /\ \E u \in PageUrls, o1 \in LogOutcomes, r \in NavOutcomes, o2 \in LogOutcomes :
        LET has  == has_business_params(u)
            away == ~has /\ ~Contains(u, BUSINESS_DOMAIN)
            e    == IF ~has /\ ~away THEN "none"
                    ELSE IF _log(o1) # "none" THEN _log(o1)
                    ELSE IF has THEN "none"
                    ELSE IF r # "ok" THEN r ELSE _log(o2)
        IN  /\ cancelSeen' = (cancelSeen \/ e = "cancel")
            /\ Script(has /\ e = "none")
            /\ bcheck' = IF e = "none" THEN [url |-> u, went |-> away] ELSE NoBiz
            /\ IF away /\ _log(o1) = "none" THEN Issue(<<"goto">>) ELSE NoIssue
            /\ IF e # "none" THEN Throw(e) /\ ret' = ret
               ELSE IF has THEN pc' = "ex_check" /\ exc' = "none" /\ ret' = "lae_finally"
               ELSE pc' = "rf_username_check" /\ exc' = "none" /\ ret' = ret
    /\ UNCHANGED <<args, ucheck, scb, shot, stamps, now, conn, res, cut, locals, loops, shi, url, jar, first>>

(***************************************************************************)
(* _run_flow, step 11, and _handle_username_setup                          *)
(***************************************************************************)
\* line 447-452
USERNAME_SELECTORS == <<"input[type='text']", "input[name='displayName']",
                        "input[aria-label*='zh_yonghuming' i]",
                        "input[aria-label*='display name' i]">>

\* what one turn of the selector loop (lines 456-461) may meet: page.locator
\* raises before username_input is assigned ("nolocator"), or is_visible
\* answers True, answers False, or raises
NameProbes == Probes \cup {"nolocator"}

\* random.choices(string.ascii_letters + string.digits, k=3)
Suffixes == {<<"a", "B", "3">>, <<"z", "0", "Q">>}

\* line 467
Username(suffix) == <<"T", "e", "s", "t">> \o suffix

\* lines 276-277 and 442-445: is username setup needed, and is the page still
\* on the login path
Rf_UsernameCheck ==
    /\ pc = "rf_username_check"
    /\ \E u \in PageUrls, u2 \in PageUrls :
        IF Contains(u, CID)
        THEN /\ pc' = "rf_wait_params"
             /\ NoIssue
             /\ ucheck' = [url |-> u, login |-> FALSE, started |-> FALSE]
             /\ UNCHANGED seli
        ELSE /\ Issue(<<"username_setup">>)
             /\ ucheck' = [url |-> u, login |-> Contains(u2, AUTH_LOGIN),
                           started |-> ~Contains(u2, AUTH_LOGIN)]
             /\ IF Contains(u2, AUTH_LOGIN)
                THEN pc' = "hus_return" /\ UNCHANGED seli
                ELSE pc' = "hus_probe" /\ seli' = 1
    /\ exc' = "none"
    /\ NotLogged
    /\ bcheck' = NoBiz
    /\ UNCHANGED <<args, scb, shot, stamps, now, conn, res, cut, locals, loopi, probed, buttons, stage,
                   shi, coop, extr>>

\* lines 456-464: one turn of the selector loop, and what follows the loop
Hus_Probe ==
    /\ pc = "hus_probe"
    /\ seli \in 1..Len(USERNAME_SELECTORS)
    /\ \E v \in NameProbes :
        LET held == IF v = "nolocator" THEN username_input ELSE USERNAME_SELECTORS[seli]
            last == seli = Len(USERNAME_SELECTORS)
        IN  /\ username_input' = held
            /\ input_visible' = (v = "visible")
            /\ exc' = Swallow(IF v \in {"fault", "nolocator"} THEN "fault" ELSE "none")
            /\ IF v = "visible" \/ last
               THEN /\ seli' = 0
                    /\ pc' = IF held = None THEN "hus_return" ELSE "hus_name"
               ELSE /\ seli' = seli + 1
                    /\ pc' = "hus_probe"
    /\ NotLogged /\ NoIssue
    /\ ucheck' = NoCheck
    /\ UNCHANGED <<args, bcheck, scb, shot, stamps, now, conn, res, cut, send_time, code, code_input, loopi, probed,
                   buttons, stage, shi, coop, extr>>

\* lines 466-477: make up the name, click the input, clear it, start typing
Hus_Name ==
    /\ pc = "hus_name"
    /\ \E suffix \in Suffixes, c1 \in CallOutcomes, c2 \in CallOutcomes :
        /\ Issue(IF c1 = "ok" THEN <<"name_click", "name_fill">> ELSE <<"name_click">>)
        /\ exc' = Swallow(IF c1 # "ok" THEN c1 ELSE IF c2 # "ok" THEN c2 ELSE "none")
        /\ IF c1 = "ok" /\ c2 = "ok"
           THEN /\ pc' = "shi_click"
                /\ caller' = "user" /\ text' = Username(suffix) /\ typed' = <<>>
           ELSE /\ pc' = "hus_return"
                /\ UNCHANGED <<caller, text, typed>>
    /\ NotLogged
    /\ UNCHANGED <<args, bcheck, ucheck, scb, shot, stamps, now, conn, res, cut, locals, loops, coop, extr>>

\* lines 478-480: the simulator failed; log, then fill the name in one go
Hus_Fallback ==
    /\ pc = "hus_fallback"
    /\ \E o \in LogOutcomes, c \in CallOutcomes :
        /\ Logged(o)
        /\ IF _log(o) # "none"
           THEN /\ NoIssue
                /\ pc' = "hus_return" /\ exc' = Swallow(_log(o))
                /\ typed' = typed
           ELSE /\ Issue(<<"name_fill">>)
                /\ exc' = Swallow(IF c = "ok" THEN "none" ELSE c)
                /\ IF c = "ok" THEN pc' = "hus_buttons" /\ typed' = text
                   ELSE pc' = "hus_return" /\ typed' = typed
    /\ UNCHANGED <<args, bcheck, ucheck, scb, shot, stamps, now, conn, res, cut, locals, loops, caller, text, coop, extr>>

\* line 482: list the buttons
Hus_Buttons ==
    /\ pc = "hus_buttons"
    /\ \E r \in CallOutcomes, n \in 0..MaxButtons :
        /\ exc' = Swallow(IF r = "ok" THEN "none" ELSE r)
        /\ IF r = "ok"
           THEN pc' = "hus_btn" /\ buttons' = n
           ELSE pc' = "hus_return" /\ buttons' = buttons
    /\ NotLogged /\ NoIssue
    /\ UNCHANGED <<args, bcheck, ucheck, scb, shot, stamps, now, conn, res, cut, locals, loopi, seli, probed, stage, shi,
                   coop, extr>>

\* lines 484-497: one button of the search, or the submit action that ends it
\* (the click on the button whose label matches, Enter when there is none)
Hus_Button ==
    /\ pc = "hus_btn"
    /\ IF buttons = 0
       THEN \E c \in CallOutcomes :
            /\ Issue(<<"name_press">>)
            /\ exc' = Swallow(IF c = "ok" THEN "none" ELSE c)
            /\ pc' = "hus_return"
            /\ buttons' = buttons
       ELSE \E r \in CallOutcomes, t \in ButtonTexts, c \in CallOutcomes :
            LET found == r = "ok" /\ MatchesSubmit(t)
            IN  /\ IF found THEN Issue(<<"click_submit">>) ELSE NoIssue
                /\ exc' = Swallow(IF r # "ok" THEN r
                                   ELSE IF found /\ c # "ok" THEN c ELSE "none")
                /\ IF found
                   THEN pc' = "hus_return" /\ buttons' = 0
                   ELSE pc' = "hus_btn" /\ buttons' = buttons - 1
    /\ NotLogged
    /\ UNCHANGED <<args, bcheck, ucheck, scb, shot, stamps, now, conn, res, cut, locals, loopi, seli, probed, stage, shi,
                   coop, extr>>

\* lines 277-278: back in _run_flow, whatever _handle_username_setup returned
Hus_Return ==
    /\ pc = "hus_return"
    /\ pc' = "rf_wait_params"
    /\ exc' = "none"
    /\ LocalsDead
    /\ NotLogged /\ NoIssue
    /\ UNCHANGED <<args, shot, now, conn, res, cut, coop, extr>>

(***************************************************************************)
(* _run_flow, steps 12 and 13, and _wait_for_business_params               *)
(***************************************************************************)
BUSINESS_PARAMS_TIMEOUT == 30

\* lines 281-282: log, first call of _wait_for_business_params
Rf_WaitParams ==
    /\ pc = "rf_wait_params"
    /\ \E o \in LogOutcomes :
        /\ Logged(o)
        /\ IF _log(o) # "none"
           THEN Throw(_log(o)) /\ NoIssue /\ UNCHANGED <<stage, loopi>>
           ELSE /\ Issue(<<"wait_params">>)
                /\ pc' = "wbp" /\ exc' = "none" /\ stage' = 1 /\ loopi' = 0
    /\ ucheck' = NoCheck
    /\ UNCHANGED <<args, bcheck, scb, shot, stamps, now, conn, res, cut, locals, seli, probed, buttons, shi, coop,
                   extr>>

\* variant: a wait that starts over when its count runs out
Wbp_IterForever ==
    /\ pc = "wbp"
    /\ loopi < BUSINESS_PARAMS_TIMEOUT
    /\ \E u \in PageUrls, o \in LogOutcomes :
        IF CarriesBoth(u)
        THEN /\ Logged(o)
             /\ IF _log(o) # "none" THEN Throw(_log(o))
                ELSE pc' = "rf_extract_log" /\ exc' = "none"
             /\ stage' = 0 /\ loopi' = 0
        ELSE /\ NotLogged
             /\ exc' = "none"
             /\ pc' = "wbp" /\ loopi' = (loopi + 1) % BUSINESS_PARAMS_TIMEOUT /\ stage' = stage
    /\ NoIssue
    /\ UNCHANGED <<args, bcheck, ucheck, scb, shot, stamps, now, conn, res, cut, locals, seli, probed, buttons, shi, coop,
                   extr>>

\* variant: a wait that leads to the reload every time it runs out
Wbp_IterReloadsAgain ==
    /\ pc = "wbp"
    /\ loopi < BUSINESS_PARAMS_TIMEOUT
    /\ \E u \in PageUrls, o \in LogOutcomes :
        IF CarriesBoth(u)
        THEN /\ Logged(o)
             /\ IF _log(o) # "none" THEN Throw(_log(o))
                ELSE pc' = "rf_extract_log" /\ exc' = "none"
             /\ stage' = 0 /\ loopi' = 0
        ELSE /\ NotLogged
             /\ exc' = "none"
             /\ IF loopi + 1 < BUSINESS_PARAMS_TIMEOUT
                THEN pc' = "wbp" /\ loopi' = loopi + 1 /\ stage' = stage
                ELSE /\ pc' = "rf_reload"
                     /\ loopi' = 0 /\ stage' = 0
    /\ NoIssue
    /\ UNCHANGED <<args, bcheck, ucheck, scb, shot, stamps, now, conn, res, cut, locals, seli, probed, buttons, shi, coop,
                   extr>>

\* lines 432-438: one iteration of the wait, and where its result leads in
\* _run_flow (lines 282, 286 and 294)
Wbp_Iter ==
    /\ pc = "wbp"
    /\ loopi < BUSINESS_PARAMS_TIMEOUT
    /\ \E u \in PageUrls, o \in LogOutcomes :
        IF CarriesBoth(u)
        THEN /\ Logged(o)
             /\ IF _log(o) # "none" THEN Throw(_log(o))
                ELSE pc' = "rf_extract_log" /\ exc' = "none"
             /\ stage' = 0 /\ loopi' = 0
        ELSE /\ NotLogged
             /\ exc' = "none"
             /\ IF loopi + 1 < BUSINESS_PARAMS_TIMEOUT
                THEN pc' = "wbp" /\ loopi' = loopi + 1 /\ stage' = stage
                ELSE /\ pc' = IF stage = 1 THEN "rf_reload" ELSE "rf_params_missing"
                     /\ loopi' = 0 /\ stage' = 0
    /\ NoIssue
    /\ UNCHANGED <<args, bcheck, ucheck, scb, shot, stamps, now, conn, res, cut, locals, seli, probed, buttons, shi, coop,
                   extr>>

\* lines 283-286: log, reload, second call of _wait_for_business_params
Rf_Reload ==
    /\ pc = "rf_reload"
    /\ \E o \in LogOutcomes, r \in NavOutcomes :
        /\ Logged(o)
        /\ IF _log(o) # "none"
           THEN Throw(_log(o)) /\ NoIssue /\ UNCHANGED <<stage, loopi>>
           ELSE IF r # "ok"
           THEN Issue(<<"reload">>) /\ Throw(r) /\ UNCHANGED <<stage, loopi>>
           ELSE /\ Issue(<<"reload", "wait_params">>)
                /\ pc' = "wbp" /\ exc' = "none" /\ stage' = 2 /\ loopi' = 0
    /\ UNCHANGED <<args, bcheck, ucheck, scb, shot, stamps, now, conn, res, cut, locals, seli, probed, buttons, shi, coop,
                   extr>>

\* lines 287-291: both waits failed
Rf_ParamsMissing ==
    /\ pc = "rf_params_missing"
    /\ \E o1 \in LogOutcomes, o2 \in LogOutcomes :
        LET e == IF _log(o1) # "none" THEN _log(o1) ELSE _log(o2)
        IN  /\ cancelSeen' = (cancelSeen \/ e = "cancel")
            /\ IF e # "none"
               THEN Throw(e) /\ NoIssue /\ UNCHANGED <<result, producer, shot>>
               ELSE Fail("params_missing", "URL parameters not found")
    /\ UNCHANGED <<args, bcheck, ucheck, scb, stamps, now, conn, outcome, cut, locals, loops, shi, coop, extr>>

\* lines 294-295: log, then extract
Rf_ExtractLog ==
    /\ pc = "rf_extract_log"
    /\ \E o \in LogOutcomes :
        /\ Logged(o)
        /\ IF _log(o) # "none" THEN Throw(_log(o)) /\ ret' = ret
           ELSE pc' = "ex_check" /\ exc' = "none" /\ ret' = "lae_finally"
    /\ NoIssue
    /\ UNCHANGED <<args, bcheck, ucheck, scb, shot, stamps, now, conn, res, cut, locals, loops, shi, coop, url, jar, first>>

Done == pc = "done"

Next ==
    \/ Connect_LogStart
    \/ Connect_StartPlaywright
    \/ Connect_OverCdp
    \/ Connect_Page
    \/ Connect_Except
    \/ Lae_Except
    \/ stop
    \/ Rf_Entry
    \/ Rf_GotoHome
    \/ Rf_CookiesLog
    \/ Rf_AddCookies
    \/ Rf_CookiesExcept
    \/ Rf_GotoLogin
    \/ Rf_LoginTimeout
    \/ Rf_Inspect
    \/ Scb_ById
    \/ Scb_ByIdExcept
    \/ Scb_KwSearch
    \/ Scb_KwButton
    \/ Scb_KwClick
    \/ Scb_KwInnerExcept
    \/ Scb_KwOuterExcept
    \/ Scb_Input1
    \/ Scb_Input2
    \/ Rf_SendMissing
    \/ Rf_WaitInput
    \/ Wci_Probe
    \/ Rf_InputMissing
    \/ Rf_Poll1
    \/ Rf_Resend
    \/ Rcb_All
    \/ Rcb_Button
    \/ Rf_Poll2
    \/ Rf_TimeoutAfterResend
    \/ Rf_CodeTimeout
    \/ Rf_Received
    \/ Shi_Click
    \/ Shi_Type
    \/ Shi_Done
    \/ Shi_Except
    \/ Rf_Fallback
    \/ Rf_Press
    \/ Rf_AfterVerify
    \/ _handle_agreement_page
    \/ Rf_BizCheck
    \/ Rf_UsernameCheck
    \/ Hus_Probe
    \/ Hus_Name
    \/ Hus_Fallback
    \/ Hus_Buttons
    \/ Hus_Button
    \/ Hus_Return
    \/ Rf_WaitParams
    \/ Wbp_Iter
    \/ Rf_Reload
    \/ Rf_ParamsMissing
    \/ Rf_ExtractLog
    \/ Ex_Check
    \/ Ex_Parse

Spec == Init /\ [][Next]_vars

(***************************************************************************)
(* stop() called from another thread while login_and_extract runs, or      *)
(* after it has ended, any number of times.                                *)
(***************************************************************************)
\* lines 41-52, called from outside: close the browser if self._browser is
\* set, stop the driver if self._playwright is set; each call may raise, which
\* is passed over and leaves its object up. The call races the flow when
\* login_and_extract has not built its result yet, and fells it when it then
\* brings the browser or the driver down.
Ext_Stop ==
    /\ \E c \in CallOutcomes, d \in CallOutcomes :
        LET hit == (browser /\ c = "ok") \/ (playwright /\ d = "ok")
            raced == ~Done /\ producer = "none"
        IN  ext' = [down   |-> ext.down \/ hit,
                    racing |-> ext.racing \/ raced,
                    felled |-> ext.felled \/ (hit /\ raced)]
    /\ UNCHANGED <<pc, exc, email, hostTz, now, conn, res, hist, cancelSeen, cut, shot, scb, ucheck,
                   bcheck, stamps, locals, loops, shi, coop, extr>>

\* one login, with stop() called from outside at any instant
StopInit == Init /\ email = <<"user", "@", "example.com">>

StopNext == Next \/ Ext_Stop

StopSpec == StopInit /\ [][StopNext]_vars

(***************************************************************************)
(* Every step of the program completes: each browser call, poll and log    *)
(* call returns or raises.                                                 *)
(***************************************************************************)
FairSpec == Spec /\ WF_vars(Next)

(***************************************************************************)
(* Two successive calls of _extract_config against one snapshot: page.url  *)
(* reads url and cookies() returns jar, in both calls.                     *)
(***************************************************************************)
ExInit ==
    /\ pc = "ex_check"
    /\ ret = "ex_again"
    /\ first = None
    /\ url \in PageUrls
    /\ jar \in Jars
    /\ email \in Emails
    /\ hostTz \in HostTzs
    /\ ext = NoExt
    /\ now = BaseNow
    /\ exc = "none"
    /\ result = None
    /\ producer = "none"
    /\ outcome = "running"
    /\ playwright = TRUE
    /\ browser = TRUE
    /\ calls = NoCalls
    /\ cancelSeen = FALSE
    /\ actedAfterCancel = FALSE
    /\ shortcut = FALSE
    /\ actedAfterShortcut = FALSE
    /\ send_time = 0
    /\ since = 0
    /\ poll_end = 0
    /\ click_at = 0
    /\ send_at = 0
    /\ shot = NoShot
    /\ scb = ScbNone
    /\ ucheck = NoCheck
    /\ bcheck = NoBiz
    /\ code = NoCode
    /\ code_input = None
    /\ loopi = 0
    /\ seli = 0
    /\ probed = <<>>
    /\ buttons = 0
    /\ stage = 0
    /\ caller = None
    /\ text = <<>>
    /\ typed = <<>>
    /\ username_input = None
    /\ input_visible = FALSE
    /\ coop = TRUE

Ex_CheckSnapshot == Ex_CheckFrom({url})
Ex_ParseSnapshot == Ex_ParseFrom({url}, {jar})

\* the first call has returned: keep its result and the clock's last reading,
\* let time pass, call again
Ex_Again ==
    /\ pc = "ex_again"
    /\ first' = [result |-> result, at |-> now]
    /\ \E t \in ClockReadings(now) : now' = t
    /\ result' = None
    /\ producer' = "none"
    /\ pc' = "ex_check"
    /\ ret' = "ex_done"
    /\ NotLogged /\ NoIssue
    /\ UNCHANGED <<args, bcheck, ucheck, scb, shot, stamps, conn, exc, outcome, cut, locals, loops, shi, coop, url, jar>>

ExNext == Ex_CheckSnapshot \/ Ex_ParseSnapshot \/ Ex_Again

ExtractSpec == ExInit /\ [][ExNext]_vars

(***************************************************************************)
(* Properties                                                              *)
(***************************************************************************)

\* C1: login_and_extract ends by returning a record {success: true, config}
\* or {success: false, error}, or by raising TaskCancelledError; no other
\* exception escapes it, whatever fails while connecting, in the flow or in
\* the teardown.
EndsInResultOrCancellation ==
    Done =>
        \/ /\ outcome = "returned"
           /\ exc = "none"
           /\ producer # "none"
           /\ DOMAIN result = (IF result.success THEN {"success", "config"}
                               ELSE {"success", "error"})
        \/ /\ outcome = "cancelled"
           /\ IsTaskCancelled(exc)

\* a fault of the connection attempt came back as a failure record
ConnectFaultReturned ==
    /\ Done
    /\ outcome = "returned"
    /\ producer = "handler"
    /\ ~browser
    /\ ~result.success

\* C2: once the log callback has raised TaskCancelledError during a log call
\* of the flow, login_and_extract ends by raising it, and no UI action
\* (click, typing, navigation, poll) is issued after that log call.
CancellationAlwaysPropagates ==
    /\ ~actedAfterCancel
    /\ (Done /\ cancelSeen) => outcome = "cancelled"

\* C3: stop runs exactly once on every way out of login_and_extract, it
\* attempts the browser close and the driver stop whenever there is a browser
\* and a driver (the driver stop also after a failed close), and it changes
\* neither the value being returned nor the exception being propagated.
TeardownOnEveryExit ==
    /\ [](calls["stop"] = (IF Done THEN 1 ELSE 0))
    /\ [](Done => /\ calls["close"] = (IF browser THEN 1 ELSE 0)
                  /\ calls["driver_stop"] = (IF playwright THEN 1 ELSE 0))
    /\ [][pc = "lae_finally" =>
            (pc' = "done" /\ result' = result /\ exc' = exc /\ producer' = producer)]_vars

\* a cancelled run, torn down
CancelledRunTornDown ==
    /\ Done
    /\ outcome = "cancelled"
    /\ calls["stop"] = 1
    /\ calls["close"] = 1
    /\ calls["driver_stop"] = 1

\* C4: the mail poller is called at most twice and the resend path is entered
\* at most once; the second poll is issued only after the resend path was
\* entered and a resend button was clicked; both code-timeout failures come
\* after exactly one resend.
AtMostTwoPollsOneResend ==
    /\ calls["poll"] <= 2
    /\ calls["resend"] <= 1
    /\ calls["poll"] = 2 => (calls["resend"] = 1 /\ calls["click_resend"] >= 1)
    /\ pc = "rf_poll2" =>
            (calls["poll"] = 1 /\ calls["resend"] = 1 /\ calls["click_resend"] >= 1)
    /\ pc \in {"rf_code_timeout", "rf_timeout_after_resend"} => calls["resend"] = 1
    /\ (Done /\ producer = "flow"
             /\ result.error \in {"verification code timeout",
                                  "verification code timeout after resend"}) =>
            (calls["resend"] = 1 /\ calls["poll"] \in {1, 2})

\* both polls came back empty
SecondPollCameBackEmpty ==
    /\ Done
    /\ producer = "flow"
    /\ result.error = "verification code timeout after resend"
    /\ calls["poll"] = 2
    /\ calls["resend"] = 1

\* C5, as stated: once the inspection of line 173 has found both business
\* parameters, nothing but the extraction follows: no send-code click, wait,
\* poll, resend, typing, keypress, agreement click, username setup, reload,
\* and no navigation at all.
ShortcutIssuesNoCall ==
    shortcut => (~actedAfterShortcut /\ calls["ex_goto"] = 0)

\* C5, amended: the same, except that the extractor itself may navigate to
\* the business console, once, when the URL it reads no longer holds "cid/".
ShortcutGoesStraightToExtraction ==
    shortcut =>
        /\ ~actedAfterShortcut
        /\ calls["ex_goto"] <= 1
        /\ calls["goto"] = 2
        /\ pc \in {"ex_check", "ex_parse", "lae_except", "lae_finally", "done"}

\* the shortcut was taken and the extractor returned
ShortcutRunReturned ==
    /\ Done
    /\ shortcut
    /\ outcome = "returned"
    /\ producer = "extractor"
    /\ result.success

\* C6: every run reaches the end of login_and_extract; the counters of the
\* two waiting loops stay below their fixed bounds, and no stage is entered
\* again but for the one resend (with its second poll) and the one reload.
FlowTerminates ==
    /\ <>Done
    /\ [](/\ pc = "wci" => loopi < CodeInputPasses
          /\ pc = "wbp" => (loopi < BUSINESS_PARAMS_TIMEOUT /\ stage \in {1, 2})
          /\ calls["poll"] <= 2
          /\ calls["resend"] <= 1
          /\ calls["reload"] <= 1
          /\ calls["username_setup"] <= 1
          /\ calls["press"] <= 1
          /\ calls["fill"] <= 1
          /\ calls["goto"] <= 3
          /\ calls["ex_goto"] <= 1
          /\ calls["screenshot"] <= 1)

\* both waits for the business parameters ran out
ParamsNeverCame ==
    /\ Done
    /\ producer = "flow"
    /\ result.error = "URL parameters not found"
    /\ calls["reload"] = 1

\* days since 1970-01-01 of a civil date, proleptic Gregorian
DaysFromCivil(y, m, d) ==
    LET yy  == IF m <= 2 THEN y - 1 ELSE y
        era == yy \div 400
        yoe == yy - era * 400
        doy == (153 * (IF m > 2 THEN m - 3 ELSE m + 9) + 2) \div 5 + d - 1
        doe == yoe * 365 + yoe \div 4 - yoe \div 100 + doy
    IN  era * 146097 + doe - 719468

\* the instant a wall clock <<Y, m, d, H, M, S>> shows at a UTC offset
InstantOf(wall, offset) ==
    DaysFromCivil(wall[1], wall[2], wall[3]) * 86400
        + wall[4] * 3600 + wall[5] * 60 + wall[6] - offset

\* C7: in a successful extraction expires_at is, on a wall clock at UTC+8,
\* the expiry of the __Secure-C_SES cookie minus 12 hours when the cookie is
\* there and has an expiry (so earlier than the expiry), and the clock's
\* reading plus 12 hours otherwise (so later than now); the host's timezone
\* plays no part.
ExpiresAtTwelveHoursOff ==
    (pc \in {"ex_again", "ex_done"} /\ producer = "extractor" /\ result.success) =>
        LET ses == FirstNamed(jar, SES_NAME)
            at  == InstantOf(result.config.expires_at, 8 * 3600)
        IN  IF HasExpiry(ses)
            THEN at = ExpiresOf(ses) - 12 * 3600 /\ at < ExpiresOf(ses)
            ELSE at = now + 12 * 3600 /\ at > now

\* a cookie expiring 2024-03-01 00:00:00 (UTC+8) gives noon of the leap day
LeapDayExpiry ==
    /\ pc = "ex_done"
    /\ producer = "extractor"
    /\ result.success
    /\ HasExpiry(FirstNamed(jar, SES_NAME))
    /\ result.config.expires_at = <<2024, 2, 29, 12, 0, 0>>

\* C8, as stated: two successive extractions against one URL and one cookie
\* jar, none of whose browser calls raised, give the same result.
ExtractionIdempotent ==
    (/\ pc = "ex_done"
     /\ producer = "extractor"
     /\ first.result.success \/ first.result.error = "cid not found"
     /\ result.success \/ result.error = "cid not found") =>
        result = first.result

\* C8, amended: they do when the session cookie has an expiry, or when the
\* clock gave both calls the same reading.
ExtractionIdempotentGivenExpiry ==
    (/\ pc = "ex_done"
     /\ producer = "extractor"
     /\ first.result.success \/ first.result.error = "cid not found"
     /\ result.success \/ result.error = "cid not found"
     /\ HasExpiry(FirstNamed(jar, SES_NAME)) \/ first.at = now) =>
        result = first.result

\* two equal credentials, the second built later than the first
SameCredentialLater ==
    /\ pc = "ex_done"
    /\ producer = "extractor"
    /\ result.success
    /\ HasExpiry(FirstNamed(jar, SES_NAME))
    /\ first.at < now
    /\ result = first.result

\* C9: in a pass of _wait_for_code_input over its selector list the selectors
\* are probed in list order, a probe that answers False or raises leads to
\* the next selector and never out of the helper with an exception, and the
\* first selector found visible is returned with no later selector probed.
SelectorFallbackInOrder ==
    /\ [](pc = "wci" =>
            /\ probed = SubSeq(CODE_INPUT_SELECTORS, 1, Len(probed))
            /\ seli > 1 => Len(probed) = seli - 1
            /\ code_input = None)
    /\ [](pc = "rf_poll1" =>
            /\ Len(probed) >= 1
            /\ probed = SubSeq(CODE_INPUT_SELECTORS, 1, Len(probed))
            /\ code_input = CODE_INPUT_SELECTORS[Len(probed)])
    /\ [][pc = "wci" =>
            (pc' \in {"wci", "rf_poll1", "rf_input_missing"} /\ exc' = "none")]_vars

\* only the second selector matched: it is returned, the third is not probed
SecondSelectorReturned ==
    /\ pc = "rf_poll1"
    /\ code_input = CODE_INPUT_SELECTORS[2]
    /\ probed = <<CODE_INPUT_SELECTORS[1], CODE_INPUT_SELECTORS[2]>>

\* C10: a run in which the environment follows the cooperative script ends
\* with success: true built by the extractor; and in every run a success
\* result was built by the extractor and its config.id is the email argument.
CooperativeRunSucceeds ==
    /\ (Done /\ coop) =>
            (outcome = "returned" /\ producer = "extractor" /\ result.success)
    /\ (Done /\ outcome = "returned" /\ result.success) =>
            (producer = "extractor" /\ result.config.id = email)

\* a cooperative run that went through the code entry
CooperativeCodeRun ==
    /\ Done
    /\ coop
    /\ calls["poll"] = 1
    /\ calls["press"] = 1
    /\ outcome = "returned"
    /\ result.success
    /\ result.config.id = email

\* C11: a credential is returned only with a config_id that is not empty;
\* when the URL gives none (no "cid/", or "cid/" with nothing after it) the
\* extractor returns a failure record.
ConfigIdRequired ==
    (producer = "extractor" /\ result.success) => result.config.config_id # <<>>

\* C12: on the resend path send_time is recorded anew, from the clock, after
\* the first poll has returned and before the resend button is looked for
\* and clicked; the second poll is called with that send_time, which is
\* neither earlier than the instant at which the first poll returned nor
\* later than the instant of the click on the resend button.
SecondPollFloorIsFresh ==
    /\ pc = "rcb_all" => (send_time = now /\ poll_end <= send_time /\ click_at = 0)
    /\ (pc \in {"rcb_btn", "rf_poll2"} /\ click_at # 0) =>
            (poll_end <= send_time /\ send_time <= click_at)
    /\ (calls["poll"] = 2 /\ since # 0) =>
            /\ since = send_time
            /\ poll_end <= since
            /\ since <= click_at

\* the second poll returned a code; time had passed before the new send_time
\* was recorded, and again before the click
FreshFloorBetweenPollAndClick ==
    /\ pc = "rf_received"
    /\ calls["poll"] = 2
    /\ code # NoCode
    /\ BaseNow < poll_end
    /\ poll_end < since
    /\ since < click_at

\* the named failures of the flow, each with the name of its screenshot
FailureShots ==
    {<<"send_code_button_missing", "send code button not found">>,
     <<"code_input_missing", "code input not found">>,
     <<"code_timeout", "verification code timeout">>,
     <<"code_timeout_after_resend", "verification code timeout after resend">>,
     <<"verification_submit_failed", "verification code submission failed">>,
     <<"params_missing", "URL parameters not found">>}

\* C13: a named failure returned by _run_flow comes right after one
\* screenshot attempt, the only one of the run, named after that failure;
\* the failure is returned whether or not the attempt raised; a run that
\* returns success has attempted no screenshot.
NamedFailureHasOneScreenshot ==
    /\ shot.name # "" =>
            /\ pc \in {"lae_finally", "done"}
            /\ exc = "none"
            /\ producer = "flow"
            /\ calls["screenshot"] = 1
            /\ result \in {Failure(f[2]) : f \in {g \in FailureShots : g[1] = shot.name}}
    /\ producer = "flow" => (~result.success /\ shot.name # "")
    /\ shot.name = "" => calls["screenshot"] = 0
    /\ (Done /\ outcome = "returned" /\ result.success) => shot = NoShot

\* the screenshot of a missing send-code button raised, and the failure came
\* back all the same
FailedScreenshotSameFailure ==
    /\ Done
    /\ outcome = "returned"
    /\ shot = [name |-> "send_code_button_missing", failed |-> TRUE]
    /\ result = Failure("send code button not found")

\* C14: _wait_for_business_params is called at most twice and the page is
\* reloaded at most once; the reload follows the first wait running out, the
\* second wait follows the reload, and when the second wait runs out too
\* the flow returns "URL parameters not found" with nothing issued in between
\* but the screenshot; when the first wait finds the parameters there is no
\* reload.
ParamWaitReloadsOnce ==
    /\ [](/\ calls["wait_params"] <= 2
          /\ calls["reload"] <= 1
          /\ pc = "wbp" => (stage = calls["wait_params"] /\ calls["reload"] = stage - 1)
          /\ pc = "rf_reload" => (calls["wait_params"] = 1 /\ calls["reload"] = 0)
          /\ pc = "rf_params_missing" => (calls["wait_params"] = 2 /\ calls["reload"] = 1)
          /\ (calls["wait_params"] = 1
                /\ (pc \in {"rf_extract_log", "ex_check", "ex_parse"} \/ producer = "extractor")) =>
                    calls["reload"] = 0
          /\ (producer = "flow" /\ result.error = "URL parameters not found") =>
                    (calls["wait_params"] = 2 /\ calls["reload"] = 1 /\ calls["ex_goto"] = 0))
    /\ [][pc = "rf_reload" => pc' \in {"wbp", "lae_except"}]_vars
    /\ [][pc = "rf_params_missing" =>
            /\ pc' \in {"lae_finally", "lae_except"}
            /\ \A k \in Counted \ {"screenshot"} : calls'[k] = calls[k]]_vars

\* both waits ran out
SecondWaitRanOut ==
    /\ pc = "rf_params_missing"
    /\ calls["wait_params"] = 2
    /\ calls["reload"] = 1

\* the send-code clicks that went through, of the running helper
SendClicksDone == {i \in 1..Len(scb.clicks) : scb.clicks[i][2] = "ok"}

\* a method of the running helper has succeeded: a click went through, or the
\* code input was seen
SendStageSucceeded == SendClicksDone # {} \/ scb.visible

\* C15: the methods of _click_send_code_button are begun in the order id,
\* keyword search, input already visible; a method is begun only when none
\* before it has succeeded; at most one send-code click goes through; the
\* third method clicks nothing; the helper reports failure exactly when no
\* method has succeeded; and nothing raised by a click or a probe ends the
\* flow.
SendStrategiesInOrder ==
    /\ scb.tried = SubSeq(<<"id", "kw", "input">>, 1, Len(scb.tried))
    /\ Cardinality(SendClicksDone) <= 1
    /\ \A i \in 1..Len(scb.clicks) : scb.clicks[i][1] # "input"
    /\ pc \in {"scb_kw", "scb_input1"} => ~SendStageSucceeded
    /\ pc = "rf_wait_input" => SendStageSucceeded
    /\ pc = "rf_send_missing" => (~SendStageSucceeded /\ Len(scb.tried) = 3)
    /\ (pc = "lae_except" /\ scb.tried # <<>>) => IsTaskCancelled(exc)

\* C15, for the runs in which the log callback has raised no cancellation:
\* the same statement.
SendStrategiesInOrderUncancelled ==
    ~cancelSeen => SendStrategiesInOrder

\* the click by id raised, and a button found by keyword was clicked
KeywordClickAfterFailedIdClick ==
    /\ pc = "rf_wait_input"
    /\ ~cancelSeen
    /\ scb.clicks = <<<<"id", "fault">>, <<"kw", "ok">>>>

\* C16: Enter is pressed at most once, after a poll of this run returned a
\* code, and with that code -- the one the latest poll returned -- in the
\* code input; the code is filled in one go at most once, and exactly when
\* _simulate_human_input returned False for it.
CodeSubmittedOnce ==
    /\ [](/\ calls["press"] <= 1
          /\ calls["fill"] <= 1
          /\ pc = "rf_press" =>
                /\ calls["press"] = 0
                /\ calls["poll"] \in {1, 2}
                /\ code \in Codes
                /\ typed = code
          /\ pc = "rf_after_verify" => (calls["press"] = 1 /\ typed = code)
          /\ pc = "rf_fallback" => calls["fill"] = 0)
    /\ [][calls'["press"] # calls["press"] => pc = "rf_press"]_vars
    /\ [][calls'["fill"] # calls["fill"] => pc = "rf_fallback"]_vars
    /\ [][pc' = "rf_fallback" => (pc = "shi_except" /\ caller = "code")]_vars
    /\ [][(pc = "shi_except" /\ caller = "code") => pc' \in {"rf_fallback", "lae_except"}]_vars
    /\ [][pc' = "rf_press" =>
            \/ pc = "shi_done" /\ caller = "code" /\ calls'["fill"] = 0
            \/ pc = "rf_fallback" /\ calls'["fill"] = 1]_vars

\* the second poll brought the code, typing it failed half-way, it was filled
\* in one go and submitted
SecondCodeFilledAndSubmitted ==
    /\ pc = "rf_after_verify"
    /\ calls["poll"] = 2
    /\ calls["fill"] = 1
    /\ calls["press"] = 1
    /\ typed = code

\* C17: the username setup is gone through at most once, and exactly when the
\* URL read at step 11 has no /cid/ segment and the page is not on the login
\* path of the auth domain -- a URL with the letters cid somewhere else
\* included.
UsernameSetupFollowsUrl ==
    /\ calls["username_setup"] <= 1
    /\ ucheck # NoCheck =>
          (ucheck.started <=> (~Contains(ucheck.url, SLASH_CID_SLASH) /\ ~ucheck.login))

\* as the code has it: any occurrence of the letters cid skips the setup
UsernameSetupFollowsCidLetters ==
    /\ calls["username_setup"] <= 1
    /\ ucheck # NoCheck =>
          (ucheck.started <=> (~Contains(ucheck.url, CID) /\ ~ucheck.login))

\* the setup was skipped on a URL that has the letters cid but no /cid/ segment
SetupSkippedWithoutSegment ==
    /\ pc = "rf_wait_params"
    /\ ucheck.url = UrlBizPlacid
    /\ ~ucheck.started
    /\ calls["username_setup"] = 0

\* C19: one call of _extract_config navigates at most once -- not at all when
\* the URL has the cid/ marker, once when it has not, and then the URL is read
\* once more; with the marker still missing the call returns the failure
\* 'cid not found' and has not read the cookies; an exception, that of the
\* navigation included, comes back as a failure with its message and is not
\* raised.  (Two successive calls on one snapshot of URL and cookies.)
ExtractorNavigatesAtMostOnce ==
    LET marked   == Contains(url, CID_SLASH)
        before   == IF ret = "ex_again" THEN 0 ELSE 1
        begun    == IF pc = "ex_check" THEN 0 ELSE 1
        returned == pc \in {"ex_again", "ex_done"}
    IN  /\ pc \in {"ex_check", "ex_parse", "ex_again", "ex_done"}
        /\ exc = "none"
        /\ marked => calls["ex_goto"] = 0
        /\ ~marked => (calls["ex_goto"] = before + begun /\ calls["cookies"] = 0)
        /\ returned =>
              /\ producer = "extractor"
              /\ IF marked
                 THEN result.success \/ result = Failure("fault")
                 ELSE result \in {Failure("cid not found"), Failure("fault"),
                                  Failure("timeout")}
        /\ pc \in {"ex_check", "ex_parse"} => producer = "none"

\* the second call navigated as the first had, and found the marker missing again
SecondCallCidNotFound ==
    /\ pc = "ex_done"
    /\ ~Contains(url, CID_SLASH)
    /\ calls["ex_goto"] = 2
    /\ first.result = Failure("cid not found")
    /\ result = Failure("cid not found")

\* the page is on the business console: the host of the URL is business.gemini.google
OnBusinessDomain(u) == Len(u) >= 2 /\ u[2] = "business.gemini.google"

\* C18: at step 9 a URL with both business parameters sends the flow to the
\* extraction with no navigation; otherwise the flow navigates to the
\* business console, once, exactly when the page is not on the business
\* domain -- the auth domain, or a URL that names the business domain in its
\* query string, included -- and then goes on to step 11.
BusinessCheckNavigates ==
    bcheck # NoBiz =>
        IF has_business_params(bcheck.url)
        THEN pc = "ex_check" /\ ~bcheck.went
        ELSE pc = "rf_username_check" /\ (bcheck.went <=> ~OnBusinessDomain(bcheck.url))

\* as the code has it: any occurrence of business.gemini.google in the URL
\* counts as being there
BusinessCheckNavigatesOnSubstring ==
    /\ calls["goto"] <= 3
    /\ bcheck # NoBiz =>
          IF has_business_params(bcheck.url)
          THEN pc = "ex_check" /\ ~bcheck.went
          ELSE /\ pc = "rf_username_check"
               /\ bcheck.went <=> ~Contains(bcheck.url, BUSINESS_DOMAIN)

\* step 11 was reached from the verification page of the auth domain with no
\* navigation
NoNavigationFromAuthDomain ==
    /\ pc = "rf_username_check"
    /\ bcheck.url = UrlVerify
    /\ ~bcheck.went

\* the positions inside _simulate_human_input
ShiPcs == {"shi_click", "shi_type", "shi_done", "shi_except"}

\* C20: _simulate_human_input never raises, whatever the element and the log
\* callback do: a call that has not returned is still running.
SimulatorNeverRaises ==
    caller # None => pc \in ShiPcs

\* while the log callback has raised no cancellation: the helper never raises,
\* returns True only with the click done and every character of the text sent,
\* sends the characters one by one in the order of the text, and sends
\* nothing and returns False once a step has raised
SimulatorContractUncancelled ==
    /\ [](~cancelSeen => SimulatorNeverRaises)
    /\ [][(pc \in ShiPcs /\ pc' \in {"rf_press", "hus_buttons"})
            => (pc = "shi_done" /\ typed = text /\ exc = "none")]_vars
    /\ [][(pc \in ShiPcs /\ typed' # typed)
            => (/\ pc = "shi_type"
                /\ Len(typed) < Len(text)
                /\ typed' = SubSeq(text, 1, Len(typed) + 1))]_vars
    /\ [][(pc = "shi_except" /\ ~cancelSeen')
            => (typed' = typed /\ pc' \in {"rf_fallback", "hus_fallback"})]_vars

\* the log call of the except clause was cancelled, and the cancellation left
\* the helper with the code half typed
SimulatorRaisedCancellation ==
    /\ pc = "lae_except"
    /\ caller = "code"
    /\ exc = "cancel"
    /\ typed # <<>>
    /\ typed # text

\* the positions of _handle_username_setup past its first click on the input
\* (the helper typing the name included)
HusActed ==
    \/ pc \in {"hus_fallback", "hus_buttons", "hus_btn"}
    \/ pc \in ShiPcs /\ caller = "user"

\* C21: _handle_username_setup acts only on an input a probe found visible:
\* with no selector of the list visible it clicks, fills, types and presses
\* nothing.
SetupActsOnVisibleInput ==
    HusActed => input_visible

\* as the code has it: the setup acts on whatever locator the loop left in
\* username_input, and on nothing when page.locator never returned one
SetupActsOnHeldInput ==
    HusActed => username_input # None

\* the name is being typed into the input of the last selector, which no
\* probe found visible
NameTypedIntoUnseenInput ==
    /\ pc = "shi_type"
    /\ caller = "user"
    /\ username_input = USERNAME_SELECTORS[Len(USERNAME_SELECTORS)]
    /\ ~input_visible
    /\ typed # <<>>

\* C22: the floor of the first poll is the send_time recorded at flow entry,
\* which nothing changes before the resend path records a new one; so the
\* since_time of each poll is no later than the click that asked for the code
\* just before it (on the send-code button for the first poll, on the resend
\* button for the second), and a mail that arrives at or after that click is
\* not older than the floor.
FloorPrecedesCodeRequest ==
    /\ [](/\ (calls["poll"] = 1 /\ since # 0) =>
               /\ since = BaseNow
               /\ pc \in {"rf_received", "rf_resend"} => since = send_time
               /\ send_at # 0 =>
                     /\ since <= send_at
                     /\ \A arrival \in ClockReadings(send_at) : since <= arrival
          /\ (calls["poll"] = 2 /\ since # 0) =>
               /\ click_at # 0
               /\ since <= click_at
               /\ \A arrival \in ClockReadings(click_at) : since <= arrival
          /\ (send_at # 0 /\ poll_end # 0) => send_at <= poll_end)
    /\ [][send_time' # send_time =>
            \/ pc = "rf_entry" /\ send_time' = now
            \/ pc = "rf_resend" /\ calls["poll"] = 1
            \/ send_time' = 0]_vars
    /\ [][since' # since =>
            \/ pc \in {"rf_poll1", "rf_poll2"} /\ since' = send_time
            \/ since' = 0]_vars

\* the first poll returned a code; its floor is older than the click on the
\* send-code button
FloorOlderThanSendClick ==
    /\ pc = "rf_received"
    /\ calls["poll"] = 1
    /\ code # NoCode
    /\ since = BaseNow
    /\ since < send_at

\* C23: stop() may be called from outside at any time and any number of
\* times; it never raises, and when it is called while the flow is in
\* progress login_and_extract ends with a failure record or a propagated
\* cancellation: never with a success built after the stop, and never with
\* another exception.
OutsideStopEndsFlow ==
    /\ Done => outcome \in {"returned", "cancelled"}
    /\ (ext.racing /\ producer = "extractor") => ~result.success

\* what holds: no other exception escapes, and no success is built once an
\* outside stop() has in fact closed the browser or stopped the driver
FelledFlowNeverSucceeds ==
    /\ Done => outcome \in {"returned", "cancelled"}
    /\ (ext.felled /\ producer = "extractor") => ~result.success

\* with stop() called from outside the run still ends, every step of the
\* program completing
FairStopSpec == StopSpec /\ WF_vars(Next)
RunEndsDespiteOutsideStop == <>Done

\* stop() was called from outside during the run and brought nothing down; the
\* run went on to a credential
SuccessAfterOutsideStop ==
    /\ Done
    /\ outcome = "returned"
    /\ producer = "extractor"
    /\ result.success
    /\ ext.racing
    /\ ~ext.down
====
